---- MODULE Spec2Model ----
(***************************************************************************)
(* reasypub: plain-text novel -> EPUB.                                     *)
(*                                                                         *)
(* Four state machines share this module.                                  *)
(*   Spec      the build orchestrator build_epub (src/src/epubworker.rs)   *)
(*             entered directly or through ConversionFacade::convert       *)
(*             (src/src/conversion.rs).  Every call on the archive writer  *)
(*             is logged in `ops'; the file system is fsDir / fsFile.      *)
(*   SpecSplit the chapter splitter TextProcessor::split_to_drafts         *)
(*             (src/src/lib.rs) applied to bounded texts and patterns.     *)
(*   SpecPure  the pure helpers (chapter rendering, headings, paragraphs,  *)
(*             file names, title lines), each called once on an argument   *)
(*             of a bounded domain.                                        *)
(*   SpecEditor the chapter editor window and MainApp::run_conversion      *)
(*             (src/src/components/chapter_editor.rs, src/src/app.rs).     *)
(*                                                                         *)
(* Strings that the code inspects character by character are sequences of  *)
(* one-character tokens.  ASCII characters stand for themselves (" ",      *)
(* "\n", "\r", "x", "M", "z", ...); the others are spelled out:            *)
(*   "u3000" U+3000 ideographic space                                      *)
(*   "di" U+7B2C   "yi" a numeral of the class [0-9...]   "zhang" U+7AE0   *)
(*   "juan" U+5377   "pian" U+7BC7   "xu" U+5E8F (a structural marker)     *)
(* File names and paths are sequences of string tokens.                    *)
(***************************************************************************)
EXTENDS Integers, Sequences, FiniteSets, TLC

VARIABLES
    pc,        \* position inside build_epub / convert ("idle" between calls)
    caller,    \* "build" for a direct build_epub call, "convert" for the facade
    req,       \* the ConversionRequest of the running convert call
    chapters,  \* the chapter slice handed to build_epub
    options,   \* the EpubBuildOptions handed to build_epub
    idx,       \* loop index of the running loop (metadata keys, images, chapters)
    ops,       \* calls made on the EpubBuilder so far, in order
    fsDir,     \* TRUE once create_dir_all has created the output directory
    fsFile,    \* "absent" | "created" | "finalized": the file at outpath
    result,    \* the value returned by the call
    buildCalls,\* number of build_epub invocations made by the running call
    text,      \* SpecSplit: the TextProcessor's text
    pattern,   \* SpecSplit: the TextProcessor's pattern
    raws,      \* SpecSplit: the Vec<String> returned by split_by_pattern
    drafts,    \* SpecSplit: the Vec<ChapterDraft> returned by split_to_drafts
    splitPc,   \* SpecSplit: "off" | "ready" | "done"
    call,      \* SpecPure: the function called and its arguments
    ret,       \* SpecPure: the value the call returned
    callPc,    \* SpecPure: "off" | "ready" | "done"
    app,       \* SpecEditor: the MainApp fields run_conversion reads and writes
    chapter_editor, \* SpecEditor: the ChapterEditorState
    request,   \* SpecEditor: the ConversionRequest inside ConversionFacade::convert
    listOrigin \* SpecEditor: the signature of the refresh the edited list came from

vars == <<pc, caller, req, chapters, options, idx, ops, fsDir, fsFile, result,
          buildCalls, text, pattern, raws, drafts, splitPc, call, ret,
          callPc, app, chapter_editor, request, listOrigin>>

buildVars == <<pc, caller, req, chapters, options, idx, ops, fsDir, fsFile,
               result, buildCalls>>
splitVars == <<text, pattern, raws, drafts, splitPc>>
pureVars == <<call, ret, callPc>>
editorVars == <<app, chapter_editor, request, listOrigin>>

----------------------------------------------------------------------------
(* Bounds *)
MaxChapters == 2
MaxImages == 2
\* SpecSplit: lines per text under the built-in pattern, and characters per
\* text under a custom pattern
MaxLines == 3
MaxTextLen == 4
\* SpecPure: the largest chapter number handed to to_roman
MaxRoman == 4100
\* SpecPure: characters per heading line handed to format_chapter_heading
MaxHeadLen == 5
\* SpecPure: characters per chapter body handed to split_paragraphs
MaxBodyLen == 9
\* SpecPure: filler characters appended to a line handed to
\* is_chapter_title_line
MaxPad == 61
\* SpecEditor: chapters the Add button may bring the edited list to
MaxEdited == 2

----------------------------------------------------------------------------
(* Character-level string helpers (str::trim, str::starts_with) *)

\* char::is_whitespace on the alphabet
IsWs(c) == c \in {" ", "\n", "\r", "u3000"}

RECURSIVE TrimStart(_)
TrimStart(str) ==
    IF str = <<>> THEN <<>>
    ELSE IF IsWs(Head(str)) THEN TrimStart(Tail(str)) ELSE str

RECURSIVE TrimEnd(_)
TrimEnd(str) ==
    IF str = <<>> THEN <<>>
    ELSE IF IsWs(str[Len(str)]) THEN TrimEnd(SubSeq(str, 1, Len(str) - 1)) ELSE str

Trim(str) == TrimEnd(TrimStart(str))

IsBlank(str) == Trim(str) = <<>>

StartsWith(str, prefix) ==
    /\ Len(str) >= Len(prefix)
    /\ SubSeq(str, 1, Len(prefix)) = prefix

EndsWith(str, suffix) ==
    /\ Len(str) >= Len(suffix)
    /\ SubSeq(str, Len(str) - Len(suffix) + 1, Len(str)) = suffix

\* Sequences over S of length 0..n
SeqUpTo(S, n) == UNION {[1..k -> S] : k \in 0..n}

\* `let x = v in F(x)' with v evaluated once, before F is applied.
Bind(v, F(_)) == CHOOSE r \in { F(x) : x \in {v} } : TRUE

\* Option<T>
None == [some |-> FALSE, value |-> <<>>]
Some(v) == [some |-> TRUE, value |-> v]

----------------------------------------------------------------------------
(* Data model: ChapterDraft, BookInfo, ImageAsset, EpubBuildOptions *)

ChapterDraft(title, content) == [title |-> title, content |-> content]

\* Drafts a caller can hand over: two titled ones and one whose title the
\* chapter editor's title field has been emptied to "".
SampleDrafts ==
    { ChapterDraft(<<"A">>, <<"x">>),
      ChapterDraft(<<"B">>, <<"x">>),
      ChapterDraft(<<>>, <<"x">>) }

ChapterLists == SeqUpTo(SampleDrafts, MaxChapters)

BookFields ==
    {"author", "title", "language", "publisher", "isbn", "category",
     "publish_date", "description"}

DefaultBookInfo == [f \in BookFields |-> <<>>]

\* One field set to v, every other field set to w.
BookInfoWith(f, v, w) == [g \in BookFields |-> IF g = f THEN v ELSE w]

FieldValues == { <<>>, <<" ">>, <<" ", "v">> }
LanguageValues == { <<>>, <<" ">>, <<"z", "h">>, <<" ", "z", "h">>, <<"Z", "H">>, <<"e", "n">> }

BookInfos ==
    { BookInfoWith(f, v, w) : f \in BookFields \ {"language"},
                              v \in FieldValues, w \in FieldValues }
    \cup { BookInfoWith("language", v, w) : v \in LanguageValues, w \in FieldValues }

ImageNames == { <<"a.png">>, <<"b.png">> }
ImageLists == SeqUpTo(ImageNames, MaxImages)

NoAsset == <<>>                 \* Option::None for cover / font
CoverAsset == <<"cover.jpg">>   \* Some(ImageAsset { name: "cover.jpg", .. })
FontAsset == <<"custom.ttf">>   \* Some(FontAsset { name: "custom.ttf", .. })

CssTemplates == {"Classic", "Folio", "Fantasy"}

DefaultTemplate == <<"{title}", "_", "{author}", ".epub">>

EpubBuildOptions(info, dir, tmpl, css, cover, images, font, incl, inline) ==
    [ book_info |-> info, output_dir |-> dir, filename_template |-> tmpl,
      css_template |-> css, cover |-> cover, images |-> images, font |-> font,
      include_images_section |-> incl, inline_toc |-> inline,
      toc_title_override |-> <<>> ]

\* The options that decide which archive entries exist: every template,
\* cover, image list and gallery switch; and, for the Classic template, every
\* cover, font and inline-TOC switch.
StructOptions ==
    { EpubBuildOptions(DefaultBookInfo, "out", DefaultTemplate, css, cover,
                       images, NoAsset, incl, TRUE) :
        css \in CssTemplates, cover \in {NoAsset, CoverAsset},
        images \in ImageLists, incl \in BOOLEAN }
    \cup
    { EpubBuildOptions(DefaultBookInfo, "out", DefaultTemplate, "Classic",
                       cover, images, font, TRUE, inline) :
        cover \in {NoAsset, CoverAsset}, images \in { <<>>, << <<"a.png">> >> },
        font \in {NoAsset, FontAsset}, inline \in BOOLEAN }

\* Every book_info of BookInfos and every output directory, plain structure.
MetaOptions ==
    { EpubBuildOptions(info, dir, DefaultTemplate, "Classic", NoAsset, <<>>,
                       NoAsset, FALSE, TRUE) :
        info \in BookInfos, dir \in {"", ".", "out"} }

\* TocOptions.toc_title_override set, for every language code
TocTitleOverrides == { <<" ">>, <<"Contents">> }
TocTitleOptions ==
    { [EpubBuildOptions(BookInfoWith("language", lang, <<>>), "out",
                        DefaultTemplate, "Classic", NoAsset, <<>>, NoAsset,
                        FALSE, TRUE)
          EXCEPT !.toc_title_override = ov] :
        lang \in LanguageValues, ov \in TocTitleOverrides }

NoOptions == EpubBuildOptions(DefaultBookInfo, "", <<>>, "Classic", NoAsset,
                              <<>>, NoAsset, FALSE, FALSE)

----------------------------------------------------------------------------
(* Results *)

NoResult == [status |-> "none", kind |-> "", inner |-> "", path |-> <<>>]
Ok(path) == [status |-> "Ok", kind |-> "", inner |-> "", path |-> path]
Err(kind) == [status |-> "Err", kind |-> kind, inner |-> "", path |-> <<>>]
ErrMsg(kind, msg) == [status |-> "Err", kind |-> kind, inner |-> msg, path |-> <<>>]

\* What the caller of the running call receives when build_epub returns r:
\* r itself for a direct call; through convert, Ok(ConversionResult) or
\* ConversionError::Build(r) (impl From<BuildError> for ConversionError).
Returned(who, r) ==
    IF who = "convert" /\ r.status = "Err"
    THEN [status |-> "Err", kind |-> "Build", inner |-> r.kind, path |-> <<>>]
    ELSE r

----------------------------------------------------------------------------
(* Filename / path utilities (epubworker/utils.rs) *)

RECURSIVE Replace(_, _, _)
\* str::replace for a one-token needle
Replace(str, token, repl) ==
    IF str = <<>> THEN <<>>
    ELSE (IF Head(str) = token THEN repl ELSE <<Head(str)>>)
         \o Replace(Tail(str), token, repl)

InvalidChars == {"/", "\\", ":", "*", "?", "\"", "<", ">", "|"}

IsValidChar(c) == c \notin InvalidChars

sanitize_filename_component(input) == Trim(SelectSeq(input, IsValidChar))

generate_filename(book_info, template) ==
    LET title == IF IsBlank(book_info.title) THEN <<"Untitled">>
                 ELSE Trim(book_info.title)
        author == IF IsBlank(book_info.author) THEN <<"Unknown">>
                  ELSE Trim(book_info.author)
        f1 == Replace(template, "{title}", title)
        f2 == Replace(f1, "{author}", author)
        f3 == Replace(f2, "{date}", Trim(book_info.publish_date))
        f4 == sanitize_filename_component(f3)
        f5 == IF EndsWith(f4, <<".epub">>) THEN f4 ELSE f4 \o <<".epub">>
    IN  IF f5 = <<".epub">> THEN title \o <<"_">> \o author \o <<".epub">>
        ELSE f5

\* normalize_output_dir: "" and "." mean the current working directory.
UsesCurrentDir(dir) == dir \in {"", "."}

normalize_output_dir(dir) == IF UsesCurrentDir(dir) THEN "cwd" ELSE dir

OutPath(o) ==
    <<normalize_output_dir(o.output_dir), "/">>
        \o generate_filename(o.book_info, o.filename_template)

----------------------------------------------------------------------------
(* Values computed by build_epub *)

\* str::to_ascii_lowercase on the letters the language codes use
\* "Chapter" and "chapter" stand for the seven-letter word in either case,
\* "[CLASS=" and "[class=" for the seven characters that open a marker.
LowerChar(c) ==
    CASE c = "Z" -> "z" [] c = "H" -> "h" [] c = "Chapter" -> "chapter"
      [] c = "[CLASS=" -> "[class="
      [] OTHER -> c

ToAsciiLower(str) == [i \in 1..Len(str) |-> LowerChar(str[i])]

TocNameZh == <<"mulu">>          \* the two-character Chinese word for "contents"
TocNameOther == <<"Table Of Contents">>

\* Variant for C21: the is_empty() test on the language dropped
TocNameBlankOther(o) ==
    IF StartsWith(Trim(o.book_info.language), <<"z", "h">>) THEN TocNameZh
    ELSE TocNameOther

toc_name(o) ==
    LET lang == Trim(o.book_info.language)
    IN  IF lang = <<>> \/ StartsWith(lang, <<"z", "h">>) THEN TocNameZh
        ELSE TocNameOther

\* The TOC display name: the caller's override when it is not blank
toc_title(o) ==
    IF IsBlank(o.toc_title_override) THEN toc_name(o) ELSE o.toc_title_override

language(o) ==
    IF IsBlank(o.book_info.language) THEN <<"z", "h", "-", "C", "N">>
    ELSE Trim(o.book_info.language)

gallery_title(lang) ==
    LET l == ToAsciiLower(Trim(lang))
    IN  IF l = <<>> \/ StartsWith(l, <<"z", "h">>) THEN <<"chatu">>
        ELSE <<"Illustrations">>

\* The six add_optional_metadata calls and the three add_optional_meta_tag
\* calls, in source order, with the value each one is given.
MetaKeys == <<"author", "title", "lang", "toc_name", "subject", "description">>
MetaTagNames == <<"publisher", "identifier", "date">>

MetadataValue(o, key) ==
    CASE key = "author"      -> o.book_info.author
      [] key = "title"       -> o.book_info.title
      [] key = "lang"        -> o.book_info.language
      [] key = "toc_name"    -> toc_title(o)
      [] key = "subject"     -> o.book_info.category
      [] key = "description" -> o.book_info.description

MetaTagValue(o, name) ==
    CASE name = "publisher"  -> o.book_info.publisher
      [] name = "identifier" -> o.book_info.isbn
      [] name = "date"       -> o.book_info.publish_date

\* Variant for C8: the blank test dropped
WritesAnyMetadata(value) == TRUE

\* add_optional_metadata / add_optional_meta_tag write only a non-blank value
WritesMetadata(value) == ~IsBlank(value)

\* format!("{:04}", n): decimal digits, zero-padded to at least four
DigitChars == <<"0", "1", "2", "3", "4", "5", "6", "7", "8", "9">>

RECURSIVE Decimal(_)
Decimal(n) ==
    IF n < 10 THEN <<DigitChars[n + 1]>>
    ELSE Decimal(n \div 10) \o <<DigitChars[(n % 10) + 1]>>

RECURSIVE ZeroPad(_, _)
ZeroPad(digits, width) ==
    IF Len(digits) >= width THEN digits ELSE ZeroPad(<<"0">> \o digits, width)

ChapterFileName(n) == <<"chapter_">> \o ZeroPad(Decimal(n), 4) \o <<".xhtml">>

\* render_chapter's result, identified by the arguments it was rendered from
render_chapter(chapter, lang, chapter_index) ==
    [chapter |-> chapter, language |-> lang, chapter_index |-> chapter_index]

NoHtml == render_chapter(ChapterDraft(<<>>, <<>>), <<>>, 0)

HasCoverImage(o) == o.cover # NoAsset
NeedsCoverPageAlways(o) == TRUE  \* variant for C6: the is_none() test dropped
NeedsCoverPage(o) == o.cover = NoAsset
HasFont(o) == o.font # NoAsset
\* Variant for C7: the !images.is_empty() test dropped
WantsGalleryWhenEnabled(o) == o.include_images_section
WantsGallery(o) == o.include_images_section /\ o.images # <<>>

FantasyAssets ==
    << <<"images/", "toutu.webp">>, <<"images/", "toutu1.webp">>,
       <<"images/", "4star.webp">>, <<"images/", "ttl.webp">>,
       <<"images/", "ttr.webp">>, <<"images/", "beijing.webp">>,
       <<"images/", "beijing1.webp">>, <<"images/", "wenli.webp">>,
       <<"images/", "zhiwen.webp">>,
       <<"fonts/", "kt.ttf">>, <<"fonts/", "rbs.ttf">>, <<"fonts/", "dbs.ttf">>,
       <<"fonts/", "ys.ttf">>, <<"fonts/", "hyss.ttf">> >>

\* Resources bundled with the template: the Folio divider, or the Fantasy
\* divider followed by add_fantasy_assets.
TemplateResources(css) ==
    CASE css = "Folio"   -> << <<"ornaments/", "folio-divider.svg">> >>
      [] css = "Fantasy" -> << <<"ornaments/", "fantasy-divider.svg">> >>
                            \o FantasyAssets
      [] OTHER           -> <<>>

----------------------------------------------------------------------------
(* Calls on the EpubBuilder, as logged in ops *)

Entry(op, name, key, value, title, reftype, html) ==
    [op |-> op, name |-> name, key |-> key, value |-> value, title |-> title,
     reftype |-> reftype, html |-> html]

MetadataOp(key, value) == Entry("metadata", <<>>, key, value, <<>>, "", NoHtml)
MetaTagOp(name, content) == Entry("metadata_opf", <<>>, name, content, <<>>, "", NoHtml)
StylesheetOp == Entry("stylesheet", <<"stylesheet.css">>, "", <<>>, <<>>, "", NoHtml)
CoverImageOp(name) == Entry("cover_image", name, "", <<>>, <<>>, "", NoHtml)
ResourceOp(path) == Entry("resource", path, "", <<>>, <<>>, "", NoHtml)
InlineTocOp == Entry("inline_toc", <<>>, "", <<>>, <<>>, "", NoHtml)
ContentOp(name, title, reftype, html) ==
    Entry("content", name, "", <<>>, title, reftype, html)
GenerateOp == Entry("generate", <<>>, "", <<>>, <<>>, "", NoHtml)

CoverPageOp == ContentOp(<<"cover.xhtml">>, <<>>, "Cover", NoHtml)

ChapterOp(chapter, lang, n) ==
    ContentOp(ChapterFileName(n), chapter.title, "Text",
              render_chapter(chapter, lang, n))

GalleryOp(lang) ==
    ContentOp(<<"images.xhtml">>, gallery_title(lang), "Text", NoHtml)

IsChapterEntry(e) ==
    /\ e.op = "content"
    /\ Len(e.name) > 1
    /\ e.name[1] = "chapter_"

IsTocEntry(e) == e.op = "content" /\ e.title # <<>>

\* The table of contents the archive writer generates: EpubBuilder::add_content
\* registers a TOC element for a content document only when the title it was
\* given is not empty.
TocEntries(log) == SelectSeq(log, IsTocEntry)

ChapterEntries(log) == SelectSeq(log, IsChapterEntry)

----------------------------------------------------------------------------
(* Patterns and the regex engine (regex crate: leftmost-first, greedy).   *)
(* Offsets are 0-based character offsets, as in the source; h[k + 1] is    *)
(* the character at offset k.                                              *)

\* A pattern of the modelled family:
\*   (anchor) (\s*)? marker ([^\n]*)?
\* anchor  "none" | "line" ((?m)^) | "text" (^ without (?m))
\* marker  "chinese" (the alternation of Pattern::ChineseChapter) |
\*         "one" (the literal M) | "star" (M*) | "empty" (nothing)
Pat(kind, anchor, lead, marker, rest) ==
    [kind |-> kind, anchor |-> anchor, lead |-> lead, marker |-> marker,
     rest |-> rest]

\* Pattern::ChineseChapter: (?m)^\s*(?:di yi+ [zhang juan] [^\n]* |
\*                                    juan yi+ [^\n]* | xu [^\n]*)
ChineseChapter == Pat("ChineseChapter", "line", TRUE, "chinese", TRUE)

\* Pattern::SimpleRules (its regex is never used for splitting)
SimpleRules == Pat("SimpleRules", "none", FALSE, "empty", TRUE)

Custom(anchor, lead, marker, rest) == Pat("Custom", anchor, lead, marker, rest)

NoPattern == Pat("", "none", FALSE, "empty", FALSE)

\* Regex::new on the regex sources of the model; "error" for a source that
\* does not parse.
RegexSources ==
    { <<"M">>, <<"^M">>, <<"(?m)^M">>, <<"(?m)^M[^\\n]*">>,
      <<"(?m)^\\s*M[^\\n]*">>, <<"M*">>, <<>>, <<"(">> }

RegexNew(src) ==
    CASE src = <<"M">>                  -> Custom("none", FALSE, "one", FALSE)
      [] src = <<"^M">>                 -> Custom("text", FALSE, "one", FALSE)
      [] src = <<"(?m)^M">>             -> Custom("line", FALSE, "one", FALSE)
      [] src = <<"(?m)^M[^\\n]*">>      -> Custom("line", FALSE, "one", TRUE)
      [] src = <<"(?m)^\\s*M[^\\n]*">>  -> Custom("line", TRUE, "one", TRUE)
      [] src = <<"M*">>                 -> Custom("none", FALSE, "star", FALSE)
      [] src = <<>>                     -> Custom("none", FALSE, "empty", FALSE)
      [] OTHER                          -> NoPattern

RegexParses(src) == src \in RegexSources \ { <<"(">> }

CustomPatterns == { RegexNew(src) : src \in RegexSources \ { <<"(">> } }

CharAt(h, k) == IF k < Len(h) THEN h[k + 1] ELSE "EOF"

\* h[a..b]
Slice(h, a, b) == SubSeq(h, a + 1, b)

RECURSIVE SkipWhile(_, _, _)
\* The offset after the longest run of characters of `class' starting at k
SkipWhile(h, k, class) ==
    IF k < Len(h) /\ h[k + 1] \in class THEN SkipWhile(h, k + 1, class) ELSE k

RECURSIVE LineEnd(_, _)
\* [^\n]* from offset k: the offset of the next line feed, or the end
LineEnd(h, k) ==
    IF k < Len(h) /\ h[k + 1] # "\n" THEN LineEnd(h, k + 1) ELSE k

WsChars == {" ", "\n", "\r", "u3000"}
Numerals == {"yi"}
RegexChapterMarks == {"zhang", "juan"}

\* The end of the marker part matched at offset j, or -1
MarkerEnd(p, h, j) ==
    CASE p.marker = "empty" -> j
      [] p.marker = "star"  -> SkipWhile(h, j, {"M"})
      [] p.marker = "one"   -> IF CharAt(h, j) = "M" THEN j + 1 ELSE -1
      [] p.marker = "chinese" ->
            LET k == SkipWhile(h, j + 1, Numerals)
            IN  CASE CharAt(h, j) = "di" ->
                        IF k > j + 1 /\ CharAt(h, k) \in RegexChapterMarks
                        THEN k + 1 ELSE -1
                  [] CharAt(h, j) = "juan" -> IF k > j + 1 THEN k ELSE -1
                  [] CharAt(h, j) = "xu" -> j + 1
                  [] OTHER -> -1

\* Variant for C9: the pattern without its (?m)^ anchor
AnchorHoldsAnywhere(p, h, i) == TRUE

\* ^ looks at the haystack it is given: offset 0 of a slice is a text start.
AnchorHolds(p, h, i) ==
    CASE p.anchor = "none" -> TRUE
      [] p.anchor = "text" -> i = 0
      [] p.anchor = "line" -> i = 0 \/ h[i] = "\n"

\* The end of the match that starts at offset i of haystack h, or -1
MatchAt(p, h, i) ==
    IF ~AnchorHolds(p, h, i) THEN -1
    ELSE LET j == IF p.lead THEN SkipWhile(h, i, WsChars) ELSE i
             m == MarkerEnd(p, h, j)
         IN  IF m = -1 THEN -1
             ELSE IF p.rest THEN LineEnd(h, m) ELSE m

NoMatch == <<-1, -1>>

\* Regex::find on h, searching from offset `from': <<start, end>> of the
\* leftmost match, or NoMatch
FindFrom(p, h, from) ==
    Bind({ i \in from..Len(h) : MatchAt(p, h, i) # -1 },
         LAMBDA starts :
            IF starts = {} THEN NoMatch
            ELSE Bind(CHOOSE i \in starts : \A j \in starts : i <= j,
                      LAMBDA i : <<i, MatchAt(p, h, i)>>))

find(p, h) == FindFrom(p, h, 0)

\* One step of the find_iter searcher from offset `at': the next match. An
\* empty match right at the end of the previous match is skipped by
\* searching again one character further on.
NextMatch(p, h, at, last_match_end) ==
    Bind(FindFrom(p, h, at),
         LAMBDA m :
            IF m # NoMatch /\ m[1] = m[2] /\ m[2] = last_match_end
            THEN FindFrom(p, h, at + 1)
            ELSE m)

RECURSIVE FindIterFrom(_, _, _, _)
FindIterFrom(p, h, at, last_match_end) ==
    IF at > Len(h) THEN <<>>
    ELSE Bind(NextMatch(p, h, at, last_match_end),
              LAMBDA m :
                 IF m = NoMatch THEN <<>>
                 ELSE <<m>> \o FindIterFrom(p, h, m[2], m[2]))

\* Regex::find_iter: the successive non-overlapping matches in haystack h
find_iter(p, h) == FindIterFrom(p, h, 0, -1)

----------------------------------------------------------------------------
(* TextProcessor (lib.rs) *)

IsKept(c) == c \notin {"\r", "u3000"}

\* clean.replace_all(&self.text, "").trim()
CleanText(str) == Trim(SelectSeq(str, IsKept))

\* re.find(&t[end..]).map(|m| end + m.start()).unwrap_or(t.len())
NextMatchStart(p, t, end) ==
    Bind(Slice(t, end, Len(t)),
         LAMBDA rest :
            Bind(find(p, rest),
                 LAMBDA m : IF m = NoMatch THEN Len(t) ELSE end + m[1]))

PushNonEmpty(list, str) == IF str = <<>> THEN list ELSE Append(list, str)

\* One iteration of `for mat in re.find_iter(&t)' for the match
\* mat = <<start, end>>: the new <<result, last_end>>.
SplitIteration(p, t, mat, res, last_end) ==
    LET start == mat[1]
        end == mat[2]
        r1 == IF res = <<>> /\ start > 0
              THEN PushNonEmpty(res, Trim(Slice(t, 0, start)))
              ELSE res
    IN  Bind(NextMatchStart(p, t, end),
             LAMBDA next_match :
                <<PushNonEmpty(r1, Trim(Slice(t, start, next_match))),
                  next_match>>)

RECURSIVE SplitLoop(_, _, _, _)
\* The whole loop over `matches' from the state st = <<result, last_end>>
SplitLoop(p, t, matches, st) ==
    IF matches = <<>> THEN st
    ELSE Bind(SplitIteration(p, t, Head(matches), st[1], st[2]),
              LAMBDA st2 : SplitLoop(p, t, Tail(matches), st2))

\* The push of the non-blank remainder after the loop
PushRemaining(t, res, last_end) ==
    IF last_end < Len(t)
    THEN PushNonEmpty(res, Trim(Slice(t, last_end, Len(t))))
    ELSE res

split_by_regex(p, str) ==
    Bind(CleanText(str),
         LAMBDA t :
            Bind(find_iter(p, t),
                 LAMBDA matches :
                    Bind(SplitLoop(p, t, matches, <<<<>>, 0>>),
                         LAMBDA st : PushRemaining(t, st[1], st[2]))))

RECURSIVE Lines(_)
\* str::lines (the text holds no "\r" where the model uses it)
Lines(str) ==
    IF str = <<>> THEN <<>>
    ELSE Bind(LineEnd(str, 0),
              LAMBDA e :
                 IF e < Len(str)
                 THEN Bind(Slice(str, e + 1, Len(str)),
                           LAMBDA rest : <<Slice(str, 0, e)>> \o Lines(rest))
                 ELSE <<str>>)

RECURSIVE Join(_, _)
Join(parts, sep) ==
    IF parts = <<>> THEN <<>>
    ELSE IF Len(parts) = 1 THEN parts[1]
    ELSE parts[1] \o sep \o Join(Tail(parts), sep)

Contains(str, class) == \E i \in 1..Len(str) : str[i] \in class

TitleMaxChars == 60
\* let markers = [zhang, hui, jie, ji, juan, bu, pian]
SimpleChapterMarks == {"zhang", "hui", "jie", "ji_col", "juan", "bu", "pian"}

\* let specials = [...]: the twelve structural markers, character by character
Specials ==
    { <<"xu", "zhang">>, <<"xu", "yan">>, <<"xu">>, <<"xie", "zi">>,
      <<"yin", "zi">>, <<"qian", "yan">>, <<"hou", "ji_rec">>,
      <<"wei", "sheng">>, <<"zhong", "zhang">>, <<"fan", "wai">>,
      <<"wai", "zhuan">>, <<"fu", "lu">> }

\* ch.is_ascii_digit() || fullwidth digit || numerals.contains(ch)
\* ("fw4" a fullwidth digit, "yi" and "bai" Chinese numerals)
VolumeNumerals ==
    { DigitChars[i] : i \in 1..Len(DigitChars) } \cup {"fw4", "yi", "bai"}

\* Variant for C23: the length test dropped
IsTitleLineAnyLength(line) ==
    IF line = <<>> THEN FALSE
    ELSE IF \E sp \in Specials : StartsWith(line, sp) THEN TRUE
    ELSE IF line[1] = "di" /\ Contains(line, SimpleChapterMarks) THEN TRUE
    ELSE IF line[1] = "juan" THEN Contains(Tail(line), VolumeNumerals)
    ELSE FALSE

is_chapter_title_line(line) ==
    IF line = <<>> THEN FALSE
    ELSE IF Len(line) > TitleMaxChars THEN FALSE
    ELSE IF \E sp \in Specials : StartsWith(line, sp) THEN TRUE
    ELSE IF line[1] = "di" /\ Contains(line, SimpleChapterMarks) THEN TRUE
    ELSE IF line[1] = "juan" THEN Contains(Tail(line), VolumeNumerals)
    ELSE FALSE

\* One iteration of `for line in lines': the new
\* <<result, current_chapter>>.
SimpleIteration(line, res, current_chapter) ==
    Bind(Trim(line),
         LAMBDA trimmed :
            IF is_chapter_title_line(trimmed)
            THEN <<PushNonEmpty(res, Trim(current_chapter)),
                   trimmed \o <<"\n">>>>
            ELSE <<res, current_chapter \o trimmed \o <<"\n">>>>)

RECURSIVE SimpleLoop(_, _)
SimpleLoop(lines, st) ==
    IF lines = <<>> THEN st
    ELSE Bind(SimpleIteration(Head(lines), st[1], st[2]),
              LAMBDA st2 : SimpleLoop(Tail(lines), st2))

split_by_simple_rules(str) ==
    Bind(Lines(CleanText(str)),
         LAMBDA lines :
            Bind(SimpleLoop(lines, <<<<>>, <<>>>>),
                 LAMBDA st : PushNonEmpty(st[1], Trim(st[2]))))

split_by_pattern(p, str) ==
    IF p.kind = "SimpleRules" THEN split_by_simple_rules(str)
    ELSE split_by_regex(p, str)

\* ChapterDraft::from_raw
from_raw(raw) ==
    Bind(Lines(raw),
         LAMBDA lines :
            IF lines = <<>> THEN ChapterDraft(<<"Untitled Chapter">>, <<>>)
            ELSE ChapterDraft(Trim(lines[1]), Join(Tail(lines), <<"\n">>)))

split_to_drafts(p, str) ==
    Bind(split_by_pattern(p, str),
         LAMBDA rs : [i \in 1..Len(rs) |-> from_raw(rs[i])])

----------------------------------------------------------------------------
(* StrategyFactory and ConversionFacade (conversion.rs) *)

\* The config files on disk: the content of a readable file, or
\* <<"unreadable">> for a path fs::read_to_string fails on.
ConfigPaths == {"rules.txt", "bad.txt", "missing.txt"}

ReadToString(path) ==
    CASE path = "rules.txt" -> <<"(?m)^M", "\n">>
      [] path = "bad.txt"   -> <<"(", "\n">>
      [] OTHER              -> <<"unreadable">>

Strategy(p) == [ok |-> TRUE, kind |-> "", msg |-> "", pattern |-> p]
StrategyErr(kind, msg) == [ok |-> FALSE, kind |-> kind, msg |-> msg, pattern |-> NoPattern]

\* Variant for C14: a strategy returned whatever the regex source is
CompileCustomLenient(src) == Strategy(RegexNew(src))

CompileCustom(src) ==
    IF RegexParses(src) THEN Strategy(RegexNew(src)) ELSE StrategyErr("Regex", "")

\* StrategyFactory::create; config_path "" is None
StrategyFactoryCreate(method, custom_regex, config_path) ==
    CASE method = "Regex" ->
            IF IsBlank(custom_regex) THEN Strategy(ChineseChapter)
            ELSE CompileCustom(Trim(custom_regex))
      [] method = "CustomConfig" ->
            IF config_path = ""
            THEN StrategyErr("InvalidInput", "Please choose a valid regex config file.")
            ELSE IF ReadToString(config_path) = <<"unreadable">>
            THEN StrategyErr("Io", "")
            ELSE CompileCustom(Trim(ReadToString(config_path)))
      [] method = "SimpleRules" -> Strategy(SimpleRules)

Methods == {"Regex", "CustomConfig", "SimpleRules"}

Request(txt, method, custom_regex, config_path, has_override, override) ==
    [text |-> txt, method |-> method, custom_regex |-> custom_regex,
     custom_config_path |-> config_path, has_override |-> has_override,
     chapters_override |-> override]

RequestTexts ==
    { <<>>, <<" ", "\n">>, <<"x">>,
      <<"di", "yi", "zhang", "\n", "x">>,
      <<"x", "\n", "M", "x", "\n", "M">> }

Overrides ==
    { <<>>, <<ChapterDraft(<<"A">>, <<"x">>)>>,
      <<ChapterDraft(<<"B">>, <<"x">>), ChapterDraft(<<"A">>, <<"x">>)>> }

Requests ==
    { Request(txt, m, re, path, FALSE, <<>>) :
        txt \in RequestTexts, m \in Methods,
        re \in { <<>>, <<"(?m)^M">>, <<"(">> }, path \in ConfigPaths \cup {""} }
    \cup
    { Request(txt, m, re, path, TRUE, ov) :
        txt \in RequestTexts, m \in Methods,
        re \in { <<>>, <<"(">> }, path \in {"", "missing.txt"}, ov \in Overrides }

ConvertOptions ==
    { EpubBuildOptions(DefaultBookInfo, "out", DefaultTemplate, "Classic",
                       cover, images, NoAsset, TRUE, TRUE) :
        cover \in {NoAsset, CoverAsset}, images \in { <<>>, << <<"a.png">> >> } }

\* The chapter list convert works with: [ok, kind, msg, chapters]
Chapters(ch) == [ok |-> TRUE, kind |-> "", msg |-> "", chapters |-> ch]
ChaptersErr(kind, msg) == [ok |-> FALSE, kind |-> kind, msg |-> msg, chapters |-> <<>>]

\* Variant for C16: the strategy created before the override is looked at
ConvertChaptersSegmenting(r) ==
    Bind(StrategyFactoryCreate(r.method, r.custom_regex, r.custom_config_path),
         LAMBDA st :
            IF ~st.ok THEN ChaptersErr(st.kind, st.msg)
            ELSE IF r.has_override THEN Chapters(r.chapters_override)
            ELSE Chapters(split_to_drafts(st.pattern, r.text)))

ConvertChapters(r) ==
    IF r.has_override THEN Chapters(r.chapters_override)
    ELSE Bind(StrategyFactoryCreate(r.method, r.custom_regex,
                                    r.custom_config_path),
              LAMBDA st :
                 IF st.ok THEN Chapters(split_to_drafts(st.pattern, r.text))
                 ELSE ChaptersErr(st.kind, st.msg))

----------------------------------------------------------------------------
(* build_epub, one action per step of the function body.  A step that ends *)
(* in `?' in the source either succeeds or returns its error.              *)

NoRequest ==
    [text |-> <<>>, method |-> "", custom_regex |-> <<>>,
     custom_config_path |-> "", has_override |-> FALSE,
     chapters_override |-> <<>>]

BuildInputs ==
    (ChapterLists \X StructOptions)
        \cup ({ <<>>, <<ChapterDraft(<<"A">>, <<"x">>)>> } \X MetaOptions)
        \cup ({ <<ChapterDraft(<<"A">>, <<"x">>)>> } \X TocTitleOptions)

\* Variant for C5: the gallery page written ahead of the chapters
BuildOrderGalleryFirst ==
    << "check", "dir", "file", "builder", "metadata", "metatag", "stylesheet",
       "cover_image", "font", "template", "images", "cover_page", "inline_toc",
       "gallery", "chapters", "generate" >>

\* The steps of build_epub's body, in source order
BuildOrder ==
    << "check", "dir", "file", "builder", "metadata", "metatag", "stylesheet",
       "cover_image", "font", "template", "images", "cover_page", "inline_toc",
       "chapters", "gallery", "generate" >>

\* The step that follows `step'; the function returns after the last one.
StepAfter(step) ==
    LET i == CHOOSE k \in 1..Len(BuildOrder) : BuildOrder[k] = step
    IN  IF i = Len(BuildOrder) THEN "done" ELSE BuildOrder[i + 1]

Return(r) ==
    /\ pc' = "done"
    /\ result' = Returned(caller, r)

\* Variant for C22: the archive closed on the way out of a failing build
FailFinalizing(kind) ==
    /\ Return(Err(kind))
    /\ fsFile' = IF fsFile = "created" THEN "finalized" ELSE fsFile
    /\ UNCHANGED <<caller, req, chapters, options, idx, ops, fsDir, buildCalls>>
    /\ UNCHANGED <<splitVars, pureVars, editorVars>>

Fail(kind) ==
    /\ Return(Err(kind))
    /\ UNCHANGED <<caller, req, chapters, options, idx, ops, fsDir, fsFile,
                   buildCalls>>
    /\ UNCHANGED <<splitVars, pureVars, editorVars>>

\* Control after one pass through the running step: on to the next step when
\* `last', else once more round its loop. idx counts the passes made.
Advance(last) ==
    /\ pc' = IF last THEN StepAfter(pc) ELSE pc
    /\ idx' = IF last THEN 0 ELSE idx + 1

\* One fallible call on the builder: log it and go on, or fail with `kind'.
Call(entry, kind, last) ==
    \/ /\ ops' = Append(ops, entry)
       /\ Advance(last)
       /\ UNCHANGED <<caller, req, chapters, options, fsDir, fsFile, result,
                      buildCalls>>
       /\ UNCHANGED <<splitVars, pureVars, editorVars>>
    \/ Fail(kind)

\* The step has nothing to add.
Skip(last) ==
    /\ Advance(last)
    /\ UNCHANGED <<caller, req, chapters, options, ops, fsDir, fsFile, result,
                   buildCalls>>
    /\ UNCHANGED <<splitVars, pureVars, editorVars>>

\* A direct call build_epub(&chapters, &options)
BuildEpubCall ==
    /\ pc = "idle"
    /\ \E input \in BuildInputs :
          /\ chapters' = input[1]
          /\ options' = input[2]
    /\ caller' = "build"
    /\ buildCalls' = 1
    /\ pc' = BuildOrder[1]
    /\ UNCHANGED <<req, idx, ops, fsDir, fsFile, result>>
    /\ UNCHANGED <<splitVars, pureVars, editorVars>>

\* Variant for C15: the blank-text check left out
AcceptsAnyText(txt) == FALSE

\* if req.text.trim().is_empty() { return Err(InvalidInput) }
RejectsText(txt) == IsBlank(txt)

\* Variant for C2: convert's own empty-list check left out
NeverNoChapters(ch) == FALSE

\* if chapters.is_empty() { return Err(InvalidInput) }  (conversion.rs)
NoChaptersDetected(ch) == ch = <<>>

\* What convert does before it reaches EpubPlanBuilder::build:
\* [ok, kind, msg, chapters], ok meaning that build_epub is called.
ConvertPrologue(r) ==
    IF RejectsText(r.text)
    THEN ChaptersErr("InvalidInput", "Text content is empty.")
    ELSE Bind(ConvertChapters(r),
              LAMBDA c :
                 IF ~c.ok THEN c
                 ELSE IF NoChaptersDetected(c.chapters)
                 THEN ChaptersErr("InvalidInput", "No chapters detected.")
                 ELSE c)

\* ConversionFacade::convert(req) up to its call of build_epub; the steps of
\* build_epub follow, and Return hands its result back through convert.
ConvertCall ==
    /\ pc = "idle"
    /\ \E r \in Requests, o \in ConvertOptions :
          \E c \in { ConvertPrologue(r) } :
              /\ req' = r
              /\ caller' = "convert"
              /\ IF c.ok
                 THEN /\ chapters' = c.chapters
                      /\ options' = o
                      /\ buildCalls' = 1
                      /\ pc' = BuildOrder[1]
                      /\ UNCHANGED result
                 ELSE /\ result' = ErrMsg(c.kind, c.msg)
                      /\ pc' = "done"
                      /\ UNCHANGED <<chapters, options, buildCalls>>
    /\ UNCHANGED <<idx, ops, fsDir, fsFile>>
    /\ UNCHANGED <<splitVars, pureVars, editorVars>>

\* Variant for C1: the empty-list check left out
RejectsNoChapters(ch) == FALSE

\* if chapters.is_empty() { return Err(InvalidInput) }
RejectsChapters(ch) == ch = <<>>

CheckChapters ==
    /\ pc = "check"
    /\ IF RejectsChapters(chapters)
       THEN Fail("InvalidInput")
       ELSE Skip(TRUE)

\* normalize_output_dir(..)?  fs::create_dir_all(..)?
ResolveOutputDir ==
    /\ pc = "dir"
    /\ \/ /\ fsDir' = TRUE
          /\ Advance(TRUE)
          /\ UNCHANGED <<caller, req, chapters, options, ops, fsFile,
                         result, buildCalls>>
          /\ UNCHANGED <<splitVars, pureVars, editorVars>>
       \/ Fail("Io")

\* generate_filename(..); File::create(&outpath)?
CreateOutputFile ==
    /\ pc = "file"
    /\ \/ /\ fsFile' = "created"
          /\ Advance(TRUE)
          /\ UNCHANGED <<caller, req, chapters, options, ops, fsDir,
                         result, buildCalls>>
          /\ UNCHANGED <<splitVars, pureVars, editorVars>>
       \/ Fail("Io")

\* EpubBuilder::new(ZipLibrary::new()?)?
NewBuilder ==
    /\ pc = "builder"
    /\ \/ Skip(TRUE)
       \/ Fail("Epub")

\* add_optional_metadata(&mut builder, key, value)? for the next key
AddOptionalMetadata ==
    /\ pc = "metadata"
    /\ LET key == MetaKeys[idx + 1]
           value == MetadataValue(options, key)
           last == idx + 1 = Len(MetaKeys)
       IN  IF WritesMetadata(value)
           THEN Call(MetadataOp(key, value), "Epub", last)
           ELSE Skip(last)

\* add_optional_meta_tag(&mut builder, name, value) for the next name
AddOptionalMetaTag ==
    /\ pc = "metatag"
    /\ LET name == MetaTagNames[idx + 1]
           value == MetaTagValue(options, name)
           last == idx + 1 = Len(MetaTagNames)
       IN  /\ ops' = IF WritesMetadata(value)
                     THEN Append(ops, MetaTagOp(name, Trim(value)))
                     ELSE ops
           /\ Advance(last)
           /\ UNCHANGED <<caller, req, chapters, options, fsDir, fsFile,
                          result, buildCalls>>
           /\ UNCHANGED <<splitVars, pureVars, editorVars>>

\* build_stylesheet(..)?  builder.stylesheet(..)?
AddStylesheet ==
    /\ pc = "stylesheet"
    /\ Call(StylesheetOp, "Epub", TRUE)

\* if let Some(cover) = &options.cover { builder.add_cover_image(..)? }
AddCoverImage ==
    /\ pc = "cover_image"
    /\ IF HasCoverImage(options)
       THEN Call(CoverImageOp(options.cover), "Epub", TRUE)
       ELSE Skip(TRUE)

\* if let Some(font) = &options.font { builder.add_resource("fonts/..")? }
AddFont ==
    /\ pc = "font"
    /\ IF HasFont(options)
       THEN Call(ResourceOp(<<"fonts/">> \o options.font), "Epub", TRUE)
       ELSE Skip(TRUE)

\* The Folio / Fantasy ornament and add_fantasy_assets(&mut builder)?: the
\* resources are added in order; adding the (k+1)-th may fail, and so may
\* reading it from disk when it is a Fantasy asset (k > 0).
AddTemplateAssets ==
    /\ pc = "template"
    /\ LET res == TemplateResources(options.css_template)
       IN  \/ /\ ops' = ops \o [i \in 1..Len(res) |-> ResourceOp(res[i])]
              /\ Advance(TRUE)
              /\ UNCHANGED <<caller, req, chapters, options, fsDir, fsFile,
                             result, buildCalls>>
              /\ UNCHANGED <<splitVars, pureVars, editorVars>>
           \/ \E k \in 0..(Len(res) - 1) :
              \E kind \in (IF k = 0 THEN {"Epub"} ELSE {"Io", "Epub"}) :
                 /\ ops' = ops \o [i \in 1..k |-> ResourceOp(res[i])]
                 /\ Return(Err(kind))
                 /\ UNCHANGED <<caller, req, chapters, options, idx, fsDir,
                                fsFile, buildCalls>>
                 /\ UNCHANGED <<splitVars, pureVars, editorVars>>

\* for image in &options.images { builder.add_resource("images/..")? }
AddImage ==
    /\ pc = "images"
    /\ IF options.images = <<>>
       THEN Skip(TRUE)
       ELSE Call(ResourceOp(<<"images/">> \o options.images[idx + 1]), "Epub",
                 idx + 1 = Len(options.images))

\* if options.cover.is_none() { builder.add_content(cover.xhtml)? }
AddCoverPage ==
    /\ pc = "cover_page"
    /\ IF NeedsCoverPage(options)
       THEN Call(CoverPageOp, "Epub", TRUE)
       ELSE Skip(TRUE)

\* if options.inline_toc { builder.inline_toc(); }
InlineToc ==
    /\ pc = "inline_toc"
    /\ ops' = IF options.inline_toc THEN Append(ops, InlineTocOp) ELSE ops
    /\ Advance(TRUE)
    /\ UNCHANGED <<caller, req, chapters, options, fsDir, fsFile, result,
                   buildCalls>>
    /\ UNCHANGED <<splitVars, pureVars, editorVars>>

\* The chapter that iteration number `index' (from 0) of
\* chapters.iter().enumerate() renders, and the number it is given.
ChapterAtFirst(ch, index) == ch[1]  \* variant for C4: the index ignored
ChapterAt(ch, index) == ch[index + 1]
ChapterNumber(index) == index + 1

\* for (index, chapter) in chapters.iter().enumerate() { add_content(..)? }
AddChapter ==
    /\ pc = "chapters"
    /\ IF idx >= Len(chapters)
       THEN Skip(TRUE)
       ELSE Call(ChapterOp(ChapterAt(chapters, idx), language(options),
                           ChapterNumber(idx)),
                 "Epub", idx + 1 = Len(chapters))

\* if options.include_images_section && !options.images.is_empty() { .. }
AddGallery ==
    /\ pc = "gallery"
    /\ IF WantsGallery(options)
       THEN Call(GalleryOp(language(options)), "Epub", TRUE)
       ELSE Skip(TRUE)

\* builder.generate(writer)?;  Ok(outpath.display().to_string())
Generate ==
    /\ pc = "generate"
    /\ \/ /\ ops' = Append(ops, GenerateOp)
          /\ fsFile' = "finalized"
          /\ Return(Ok(OutPath(options)))
          /\ UNCHANGED <<caller, req, chapters, options, idx, fsDir,
                         buildCalls>>
          /\ UNCHANGED <<splitVars, pureVars, editorVars>>
       \/ Fail("Epub")

BuildStep ==
    \/ CheckChapters
    \/ ResolveOutputDir
    \/ CreateOutputFile
    \/ NewBuilder
    \/ AddOptionalMetadata
    \/ AddOptionalMetaTag
    \/ AddStylesheet
    \/ AddCoverImage
    \/ AddFont
    \/ AddTemplateAssets
    \/ AddImage
    \/ AddCoverPage
    \/ InlineToc
    \/ AddChapter
    \/ AddGallery
    \/ Generate

BuildInit ==
    /\ pc = "idle"
    /\ caller = ""
    /\ req = NoRequest
    /\ chapters = <<>>
    /\ options = NoOptions
    /\ idx = 0
    /\ ops = <<>>
    /\ fsDir = FALSE
    /\ fsFile = "absent"
    /\ result = NoResult
    /\ buildCalls = 0

SplitIdle ==
    /\ text = <<>>
    /\ pattern = NoPattern
    /\ raws = <<>>
    /\ drafts = <<>>
    /\ splitPc = "off"

NoCall == [fn |-> "", arg |-> <<>>]

PureIdle ==
    /\ call = NoCall
    /\ ret = <<>>
    /\ callPc = "off"

\* MainApp::default() and ChapterEditorState::default()
MainApp(content, method, regex, file, err, res, modal) ==
    [input_file_content |-> content, selected_method |-> method,
     custom_regex_pattern |-> regex, custom_regex_file |-> file,
     conversion_error |-> err, conversion_result |-> res,
     show_conversion_modal |-> modal]

ChapterEditorState(use, list, stale, error, last) ==
    [use_for_conversion |-> use, chapters |-> list, stale |-> stale,
     error |-> error, last_refresh_signature |-> last]

EditorIdle ==
    /\ app = MainApp(<<>>, "Regex", <<>>, "", None, None, FALSE)
    /\ chapter_editor = ChapterEditorState(FALSE, <<>>, FALSE, FALSE, None)
    /\ request = None
    /\ listOrigin = None

Init == BuildInit /\ SplitIdle /\ PureIdle /\ EditorIdle

Next ==
    \/ BuildEpubCall
    \/ ConvertCall
    \/ BuildStep

Spec == Init /\ [][Next]_vars

----------------------------------------------------------------------------
(* TextProcessor::split_to_drafts on its own: the text and the pattern are *)
(* the inputs, drawn by SplitInit.                                         *)

\* Lines a text under the built-in pattern is made of
ChineseLines ==
    { <<>>, <<"x">>, <<" ">>,
      <<"di", "yi", "zhang">>,
      <<"di", "yi", "zhang", " ", "x">>,
      <<" ", "di", "yi", "yi", "juan", "\r">>,
      <<"x", "di", "yi", "zhang">>,
      <<"x", "u3000", "xu">>,
      <<"juan", "yi">>,
      <<"xu", "x">>,
      <<"di", "zhang">> }

ChineseTexts == { Join(ls, <<"\n">>) : ls \in SeqUpTo(ChineseLines, MaxLines) }

CustomChars == {"M", "x", "\n", " "}

CustomTexts == SeqUpTo(CustomChars, MaxTextLen)

SplitInputs ==
    ({ChineseChapter, SimpleRules} \X ChineseTexts)
        \cup (CustomPatterns \X CustomTexts)

SplitInit ==
    /\ BuildInit
    /\ PureIdle
    /\ EditorIdle
    /\ \E input \in SplitInputs :
          /\ pattern = input[1]
          /\ text = input[2]
    /\ raws = <<>>
    /\ drafts = <<>>
    /\ splitPc = "ready"

\* TextProcessor::new(pattern, text).split_to_drafts()
SplitToDrafts ==
    /\ splitPc = "ready"
    /\ raws' = split_by_pattern(pattern, text)
    /\ drafts' = split_to_drafts(pattern, text)
    /\ splitPc' = "done"
    /\ UNCHANGED <<text, pattern>>
    /\ UNCHANGED <<buildVars, pureVars, editorVars>>

SplitNext == SplitToDrafts

SpecSplit == SplitInit /\ [][SplitNext]_vars

----------------------------------------------------------------------------
(* Chapter headings (epubworker/render.rs) *)

\* Variant for C17: the table without its subtractive pairs
NumeralsAdditive ==
    << [value |-> 1000, symbol |-> <<"M">>], [value |-> 500, symbol |-> <<"D">>],
       [value |-> 100, symbol |-> <<"C">>], [value |-> 50, symbol |-> <<"L">>],
       [value |-> 10, symbol |-> <<"X">>], [value |-> 5, symbol |-> <<"V">>],
       [value |-> 1, symbol |-> <<"I">>] >>

\* let numerals = [(1000, "M"), (900, "CM"), ...]
RomanNumerals ==
    << [value |-> 1000, symbol |-> <<"M">>],
       [value |-> 900,  symbol |-> <<"C", "M">>],
       [value |-> 500,  symbol |-> <<"D">>],
       [value |-> 400,  symbol |-> <<"C", "D">>],
       [value |-> 100,  symbol |-> <<"C">>],
       [value |-> 90,   symbol |-> <<"X", "C">>],
       [value |-> 50,   symbol |-> <<"L">>],
       [value |-> 40,   symbol |-> <<"X", "L">>],
       [value |-> 10,   symbol |-> <<"X">>],
       [value |-> 9,    symbol |-> <<"I", "X">>],
       [value |-> 5,    symbol |-> <<"V">>],
       [value |-> 4,    symbol |-> <<"I", "V">>],
       [value |-> 1,    symbol |-> <<"I">>] >>

RECURSIVE ToRomanLoop(_, _, _)
\* for (value, symbol) in numerals { while num >= value { push; num -= value } }
\* at entry i of the table, with `out' pushed so far
ToRomanLoop(num, i, out) ==
    IF i > Len(RomanNumerals) THEN out
    ELSE IF num >= RomanNumerals[i].value
    THEN ToRomanLoop(num - RomanNumerals[i].value, i, out \o RomanNumerals[i].symbol)
    ELSE ToRomanLoop(num, i + 1, out)

to_roman(num) == ToRomanLoop(num, 1, <<>>)

Heading(label, title) == [label |-> label, title |-> title]

RECURSIVE WordEnd(_, _)
\* The offset of the first whitespace character at or after k, or the end
WordEnd(h, k) ==
    IF k < Len(h) /\ ~IsWs(h[k + 1]) THEN WordEnd(h, k + 1) ELSE k

\* split_title_line(line): label up to the first whitespace, the rest trimmed
split_title_line(line) ==
    Bind(WordEnd(line, 0),
         LAMBDA i :
            IF i < Len(line)
            THEN Bind(Trim(Slice(line, i, Len(line))),
                      LAMBDA rest :
                         IF rest = <<>> THEN Heading(Trim(Slice(line, 0, i)), None)
                         ELSE Heading(Trim(Slice(line, 0, i)), Some(rest)))
            ELSE Heading(line, None))

RECURSIVE split_whitespace(_)
\* str::split_whitespace, collected
split_whitespace(str) ==
    Bind(TrimStart(str),
         LAMBDA t :
            IF t = <<>> THEN <<>>
            ELSE Bind(WordEnd(t, 0),
                      LAMBDA e : <<Slice(t, 0, e)>>
                                    \o split_whitespace(Slice(t, e, Len(t)))))

AsciiDigits == { DigitChars[i] : i \in 1..Len(DigitChars) }
DigitValue(c) == (CHOOSE i \in 1..Len(DigitChars) : DigitChars[i] = c) - 1

RECURSIVE DecimalValue(_)
DecimalValue(digits) ==
    IF digits = <<>> THEN 0
    ELSE 10 * DecimalValue(SubSeq(digits, 1, Len(digits) - 1))
            + DigitValue(digits[Len(digits)])

\* Every number of at most nine digits fits a u32
U32SafeDigits == 9

\* digits.parse::<u32>() is Ok (longer digit runs are beyond MaxHeadLen)
ParsesU32(digits) == digits # <<>> /\ Len(digits) <= U32SafeDigits

\* [':', fullwidth colon, '-', em dash]
HeadingSeparators == {":", "fullcolon", "-", "emdash"}

\* The tail of format_chapter_heading once "Chapter" and a number are read
NumberedHeading(num, rest) ==
    Bind(IF rest # <<>> /\ rest[1] \in HeadingSeparators
         THEN Trim(Slice(rest, SkipWhile(rest, 0, HeadingSeparators), Len(rest)))
         ELSE rest,
         LAMBDA r :
            IF IsBlank(r) THEN Heading(<<"Chapter", " ">> \o to_roman(num), None)
            ELSE Heading(<<"Chapter", " ">> \o to_roman(num), Some(r)))

IsEnglish(lang) == StartsWith(ToAsciiLower(Trim(lang)), <<"e", "n">>)

format_chapter_heading(line, lang) ==
    Bind(Trim(line),
         LAMBDA trimmed :
            IF IsEnglish(lang) \/ StartsWith(ToAsciiLower(trimmed), <<"chapter", " ">>)
            THEN Bind(split_whitespace(trimmed),
                      LAMBDA parts :
                         IF /\ Len(parts) >= 2
                            /\ ToAsciiLower(parts[1]) = <<"chapter">>
                         THEN Bind(Slice(parts[2], 0, SkipWhile(parts[2], 0, AsciiDigits)),
                                   LAMBDA digits :
                                      IF ParsesU32(digits)
                                      THEN NumberedHeading(
                                               DecimalValue(digits),
                                               Join(SubSeq(parts, 3, Len(parts)), <<" ">>))
                                      ELSE split_title_line(trimmed))
                         ELSE split_title_line(trimmed))
            ELSE split_title_line(trimmed))

----------------------------------------------------------------------------
(* Paragraphs of a chapter body (epubworker/render.rs) *)

\* Closing quotes and brackets skipped from the end, and the sentence marks
\* ("rquote", "juhao" standing for the fullwidth ones)
ClosingMarks == {"rquote", ")", "]", "}", "'"}
SentenceMarks == {"juhao", "!", "?", ".", ";", ":"}

\* Variant for C24: the closing marks not skipped
EndsWithPunctAtEnd(str) == str # <<>> /\ str[Len(str)] \in SentenceMarks

RECURSIVE ends_with_sentence_punct(_)
ends_with_sentence_punct(str) ==
    IF str = <<>> THEN FALSE
    ELSE IF str[Len(str)] \in ClosingMarks
    THEN ends_with_sentence_punct(SubSeq(str, 1, Len(str) - 1))
    ELSE str[Len(str)] \in SentenceMarks

\* The lines kept by the first loop: trimmed, the empty ones left out
CleanedLines(lines) ==
    SelectSeq([i \in 1..Len(lines) |-> Trim(lines[i])], LAMBDA l : l # <<>>)

PunctLines(cleaned) ==
    Cardinality({ i \in 1..Len(cleaned) : ends_with_sentence_punct(cleaned[i]) })

RECURSIVE ParagraphLoop(_, _, _)
\* for line in lines { ... } followed by the push of the open paragraph
ParagraphLoop(lines, current, paragraphs) ==
    IF lines = <<>>
    THEN (IF current # <<>> THEN Append(paragraphs, current) ELSE paragraphs)
    ELSE IF IsBlank(TrimEnd(lines[1]))
    THEN (IF current # <<>>
          THEN ParagraphLoop(Tail(lines), <<>>, Append(paragraphs, current))
          ELSE ParagraphLoop(Tail(lines), current, paragraphs))
    ELSE ParagraphLoop(Tail(lines), Append(current, TrimEnd(lines[1])), paragraphs)

\* The part of split_paragraphs after the `if !has_blank' block
BlankLineParagraphs(content, lines) ==
    Bind(ParagraphLoop(lines, <<>>, <<>>),
         LAMBDA paragraphs :
            IF paragraphs = <<>> /\ ~IsBlank(content)
            THEN << <<Trim(content)>> >>
            ELSE paragraphs)

split_paragraphs(content) ==
    Bind(Lines(content),
         LAMBDA lines :
            IF \A i \in 1..Len(lines) : ~IsBlank(lines[i])
            THEN Bind(CleanedLines(lines),
                      LAMBDA cleaned :
                         IF /\ Len(cleaned) > 0
                            /\ PunctLines(cleaned) * 3 >= Len(cleaned) * 2
                         THEN [i \in 1..Len(cleaned) |-> <<cleaned[i]>>]
                         ELSE IF cleaned # <<>> THEN <<cleaned>>
                         ELSE BlankLineParagraphs(content, lines))
            ELSE BlankLineParagraphs(content, lines))

----------------------------------------------------------------------------
(* The chapter document (epubworker/render.rs).  The document is the       *)
(* sequence of the elements pushed, each with the strings format! puts     *)
(* into it: its class attribute, its src attribute and its lines of text.  *)

El(el, class, src, lines) == [el |-> el, class |-> class, src |-> src, lines |-> lines]

\* escape_html on one character: the five entities, each as one token
EscapeChar(c) ==
    CASE c = "&"  -> "&amp;"
      [] c = "<"  -> "&lt;"
      [] c = ">"  -> "&gt;"
      [] c = "\"" -> "&quot;"
      [] c = "'"  -> "&#39;"
      [] OTHER    -> c

escape_html(input) == [i \in 1..Len(input) |-> EscapeChar(input[i])]

RECURSIVE JoinWords(_)
JoinWords(words) ==
    IF words = <<>> THEN <<>>
    ELSE <<" ">> \o words[1] \o JoinWords(Tail(words))

\* merge_classes(base, extra): base, then the words of extra, single-spaced
merge_classes(base, extra) ==
    IF IsBlank(extra) THEN base ELSE base \o JoinWords(split_whitespace(extra))

\* The offset of the first character of `class' in str, or -1
FindChar(str, class) ==
    IF \E i \in 1..Len(str) : str[i] \in class
    THEN (CHOOSE i \in 1..Len(str) :
             str[i] \in class /\ \A j \in 1..(i - 1) : str[j] \notin class) - 1
    ELSE -1

\* Variant for C25: the marker recognised in lower case only
ExtractMarkerLowerCaseOnly(lines) ==
    IF lines = <<>> THEN <<None, lines>>
    ELSE Bind(TrimStart(lines[1]),
              LAMBDA first :
                 IF ~StartsWith(first, <<"[class=">>)
                 THEN <<None, lines>>
                 ELSE Bind(FindChar(first, {"]"}),
                           LAMBDA end :
                              IF end < 0 THEN <<None, lines>>
                              ELSE IF IsBlank(Slice(first, 1, end)) THEN <<None, lines>>
                              ELSE IF TrimStart(Slice(first, end + 1, Len(first))) = <<>>
                              THEN <<Some(Trim(Slice(first, 1, end))), Tail(lines)>>
                              ELSE <<Some(Trim(Slice(first, 1, end))),
                                     <<TrimStart(Slice(first, end + 1, Len(first)))>>
                                        \o Tail(lines)>>))

\* extract_marker_class(&mut lines): <<marker class or None, lines left>>
extract_marker_class(lines) ==
    IF lines = <<>> THEN <<None, lines>>
    ELSE Bind(TrimStart(lines[1]),
              LAMBDA first :
                 IF ~StartsWith(ToAsciiLower(first), <<"[class=">>)
                 THEN <<None, lines>>
                 ELSE Bind(FindChar(first, {"]"}),
                           LAMBDA end :
                              IF end < 0 THEN <<None, lines>>
                              ELSE IF IsBlank(Slice(first, 1, end)) THEN <<None, lines>>
                              ELSE IF TrimStart(Slice(first, end + 1, Len(first))) = <<>>
                              THEN <<Some(Trim(Slice(first, 1, end))), Tail(lines)>>
                              ELSE <<Some(Trim(Slice(first, 1, end))),
                                     <<TrimStart(Slice(first, end + 1, Len(first)))>>
                                        \o Tail(lines)>>))

\* let markers = [zhang, hui, jie, juan, bu, pian], tried in this order
FantasyMarks == <<"zhang", "hui", "jie", "juan", "bu", "pian">>

\* trim_start_matches([':', fullwidth colon, dashes, dots, ' ', tab, u3000])
TitleSeparators ==
    {":", "fullcolon", "-", "emdash", "endash", "bar", "middot", "katadot",
     " ", "tab", "u3000"}

RECURSIVE SplitAtMark(_, _)
\* The body of `for marker in markers', from the k-th marker on:
\* Some(<<prefix, rest>>) for the first marker that leaves a rest, or None
SplitAtMark(trimmed, k) ==
    IF k > Len(FantasyMarks) THEN None
    ELSE Bind(FindChar(trimmed, {FantasyMarks[k]}),
              LAMBDA i :
                 IF i < 0 THEN SplitAtMark(trimmed, k + 1)
                 ELSE Bind(Trim(Slice(trimmed, i + 1, Len(trimmed))),
                           LAMBDA after :
                              Bind(Trim(Slice(after, SkipWhile(after, 0, TitleSeparators),
                                              Len(after))),
                                   LAMBDA rest :
                                      IF rest # <<>>
                                      THEN Some(<<Trim(Slice(trimmed, 0, i + 1)), rest>>)
                                      ELSE SplitAtMark(trimmed, k + 1))))

split_chinese_chapter_title(line) ==
    IF ~StartsWith(Trim(line), <<"di">>) THEN None
    ELSE SplitAtMark(Trim(line), 1)

\* append_standard_chapter_header(&mut html, title, language, style)
append_standard_chapter_header(title, lang, style) ==
    Bind(format_chapter_heading(title, lang),
         LAMBDA h :
            << El("header", merge_classes(<<"chapter-header">>, style.extra_chapter_class),
                  <<>>, <<>>) >>
            \o (IF h.title.some
                THEN << El("label", <<>>, <<>>, <<escape_html(h.label)>>),
                        El("h2", escape_html(Trim(style.extra_title_class)), <<>>,
                           <<escape_html(h.title.value)>>) >>
                ELSE << El("h2", escape_html(Trim(style.extra_title_class)), <<>>,
                           <<escape_html(h.label)>>) >>))

\* The header of the Fantasy template for a title of the Chinese shape
FantasyHeader(title, parts, style, chapter_index, header_image) ==
    << El("fantasy_image", <<"Header-image-dk">>,
          escape_html(IF header_image.some THEN <<"images/">> \o header_image.value
                      ELSE <<"images/", "toutu.webp">>),
          <<>>),
       El("h2", escape_html(merge_classes(<<"chapter-title-hidden">>,
                                          style.extra_title_class)),
          <<>>, <<escape_html(Trim(title))>>),
       El("nt", <<"nt">>, <<>>, <<escape_html(parts[1])>>),
       El("et", <<"et">>, <<>>, <<<<"CHAPTER">> \o ZeroPad(Decimal(chapter_index), 2)>>),
       El("ct", <<"ct">>, <<>>, <<escape_html(parts[2])>>) >>

\* The chapter-head image block of the other templates
HeadImage(header_image, header_fullbleed) ==
    IF header_image.some
    THEN << El("head_image",
               escape_html(IF header_fullbleed
                           THEN <<"chapter-head-image", " ", "fullbleed">>
                           ELSE <<"chapter-head-image">>),
               <<"images/">> \o escape_html(header_image.value), <<>>) >>
    ELSE <<>>

\* One pass of `for (idx, mut paragraph) in split_paragraphs(..)'
ParagraphElement(k, paragraph, style) ==
    Bind(extract_marker_class(paragraph),
         LAMBDA m :
            El("p",
               escape_html(
                  Bind(merge_classes(
                          (IF k = 1
                           THEN <<"chapter-paragraph", " ", "chapter-paragraph-first">>
                           ELSE <<"chapter-paragraph">>),
                          style.extra_paragraph_class),
                       LAMBDA pc1 :
                          IF m[1].some THEN merge_classes(pc1, m[1].value) ELSE pc1)),
               <<>>,
               [i \in 1..Len(m[2]) |-> escape_html(m[2][i])]))

\* render_chapter(chapter, language, style, template, chapter_index,
\*                header_image, header_fullbleed)
RenderChapterDocument(chapter, lang, style, template, chapter_index, header_image, header_fullbleed) ==
    << El("html", <<>>, <<>>, <<lang>>),
       El("body",
          escape_html(merge_classes(
             (IF template = "Fantasy"
              THEN <<"chapter", " ", "intro2", " ", "fantasy">>
              ELSE <<"chapter">>),
             style.extra_body_class)),
          <<>>, <<>>) >>
    \o (IF template = "Fantasy"
        THEN Bind(split_chinese_chapter_title(Trim(chapter.title)),
                  LAMBDA parts :
                     IF parts.some
                     THEN FantasyHeader(chapter.title, parts.value, style,
                                        chapter_index, header_image)
                     ELSE append_standard_chapter_header(Trim(chapter.title), lang, style))
        ELSE HeadImage(header_image, header_fullbleed)
                \o append_standard_chapter_header(Trim(chapter.title), lang, style))
    \o Bind(split_paragraphs(chapter.content),
            LAMBDA ps : [k \in 1..Len(ps) |-> ParagraphElement(k, ps[k], style)])

----------------------------------------------------------------------------
(* The pure helpers called on their own: the call is drawn by PureInit and *)
(* the action of the function called applies it.                           *)

Invoke(fn, arg) == [fn |-> fn, arg |-> arg]

\* Raw chapter strings handed to ChapterDraft::from_raw
RawChars == {"x", " ", "\n"}
RawTexts == SeqUpTo(RawChars, MaxTextLen)

\* Arguments of StrategyFactory::create: <<method, custom_regex, config_path>>
CreateRegexes == { <<>>, <<" ">>, <<"(?m)^M">>, <<" ", "(?m)^M">>, <<"(">>, <<"(", " ">> }
CreateArgs == Methods \X CreateRegexes \X (ConfigPaths \cup {""})

\* Heading lines and languages handed to format_chapter_heading
HeadingChars == {"Chapter", "chapter", "4", ":", "T", " "}
HeadingLines == SeqUpTo(HeadingChars, MaxHeadLen)
HeadingLanguages == { <<"e", "n">>, <<"z", "h">> }

\* Chapter bodies handed to split_paragraphs
BodyChars == {"a", ".", "\n"}
Bodies == SeqUpTo(BodyChars, MaxBodyLen)

\* Book fields and filename templates handed to generate_filename:
\* <<title, author, publish_date, template>>
FilenameTitles == { <<>>, <<" ">>, <<"x">>, <<"x", "/", "x">> }
FilenameAuthors == { <<>>, <<"x">>, <<"x", ":", "x">> }
FilenameDates == { <<>>, <<"2">>, <<"2", "/", "2">> }
FilenameTemplates ==
    { <<>>, <<" ">>, <<"*">>, <<"*", "?">>, <<"m", "*", "f">>, <<"m", ".epub">>,
      <<"{title}">>, <<"{title}", "_", "{author}">>, <<"{date}">>,
      <<"{title}", "_", "{date}", ".epub">> }
FilenameArgs ==
    FilenameTitles \X FilenameAuthors \X FilenameDates \X FilenameTemplates

\* Bodies without a blank line handed to split_paragraphs: up to MaxLines
\* lines, with and without sentence marks and closing marks
BlockLines ==
    { <<"a">>, <<"a", ".">>, <<"a", ".", ")">>, <<"a", ")">>, <<" ", "a", "?", " ">>,
      <<".", "a">>, <<"a", "!", "rquote", ")">> }
BlockBodies ==
    { Join(ls, <<"\n">>) : ls \in SeqUpTo(BlockLines, MaxLines) \ {<<>>} }

\* Arguments of render_chapter.  TextStyle's four extra class strings are
\* all set to the same value.
TextStyle(extra) ==
    [extra_body_class |-> extra, extra_chapter_class |-> extra,
     extra_title_class |-> extra, extra_paragraph_class |-> extra]

RenderArgs(title, content, lang, style, template, header_image, header_fullbleed) ==
    [title |-> title, content |-> content, language |-> lang, style |-> style,
     template |-> template, chapter_index |-> 1, header_image |-> header_image,
     header_fullbleed |-> header_fullbleed]

\* Chapter bodies with [class=...] markers: up to MaxLines lines
MarkedLines ==
    { <<>>, <<"a">>, <<"[class=", "k", "]">>, <<"[CLASS=", "k", " ", "m", "]", "a">>,
      <<" ", "[class=", "k", "]", " ", "a">>, <<"[class=", "]", "a">>,
      <<"[class=", " ", "]">>, <<"[class=", "k">>, <<"a", "[class=", "k", "]">> }
MarkedBodies == { Join(ls, <<"\n">>) : ls \in SeqUpTo(MarkedLines, MaxLines) }

RenderTitles ==
    { <<"T">>, <<"Chapter", " ", "4", " ", "T">>, <<"di", "yi", "zhang", " ", "T">>,
      <<"di", "yi", "zhang">>, <<"di", "yi", "zhang", ":">>, <<"T", "&", "T">>,
      <<"di", "<", "zhang", "'", "T">> }
RenderLanguages == { <<"e", "n">>, <<"z", "h">>, <<"e", "n", "\"">> }
RenderStyles == { TextStyle(<<>>), TextStyle(<<"k">>), TextStyle(<<"k", "<">>) }
HeaderImages == { None, Some(<<"h.png">>), Some(<<"h", "&", ".png">>) }
RenderBodies == { <<"a">>, <<"a", "&">>, <<"[class=", "k", "\"", "]", "a", ">">> }

\* The calls made: one function applied to one argument of its domain
TitleHeads ==
    { <<>>, <<"x">>, <<"xu">>, <<"xu", "zhang">>, <<"xie", "zi">>, <<"xie">>,
      <<"x", "xu">>, <<"fu", "lu">>, <<"zi", "xie">>,
      <<"di", "yi", "zhang">>, <<"di", "yi">>, <<"di", "hui">>,
      <<"di", "x", "ji_col">>, <<"di", "ji_rec">>, <<"zhang", "di">>,
      <<"juan", "yi">>, <<"juan", "4">>, <<"juan", "fw4">>, <<"juan">>,
      <<"juan", "x">>, <<"yi", "juan">>, <<"juan", "x", "bai">> }
Padded(head, n) == head \o [i \in 1..n |-> "x"]

\* Texts handed to split_by_simple_rules: up to MaxLines lines
SimpleLines ==
    { <<>>, <<"x">>, <<" ", "x", " ">>, <<"xu", "zhang">>,
      <<" ", "di", "yi", "zhang", " ", "x">>, <<"juan", "x">>,
      Padded(<<"di", "yi", "zhang">>, MaxPad) }
SimpleTexts == { Join(ls, <<"\n">>) : ls \in SeqUpTo(SimpleLines, MaxLines) }

\* The calls made: one function applied to one argument of its domain
IsPureCall(c) ==
    \/ \E raw \in RawTexts : c = Invoke("from_raw", raw)
    \/ \E a \in CreateArgs : c = Invoke("create", a)
    \/ \E n \in 0..MaxRoman : c = Invoke("to_roman", n)
    \/ \E line \in HeadingLines, lang \in HeadingLanguages :
          c = Invoke("format_chapter_heading", <<line, lang>>)
    \/ \E body \in Bodies \cup BlockBodies : c = Invoke("split_paragraphs", body)
    \/ \E a \in FilenameArgs : c = Invoke("generate_filename", a)
    \/ \E head \in TitleHeads, n \in 0..MaxPad :
          c = Invoke("is_chapter_title_line", Padded(head, n))
    \/ \E txt \in SimpleTexts : c = Invoke("split_by_simple_rules", txt)
    \/ \E body \in MarkedBodies, style \in {TextStyle(<<>>), TextStyle(<<"k">>)} :
          c = Invoke("render_chapter",
                     RenderArgs(<<"T">>, body, <<"e", "n">>, style, "Classic",
                                None, FALSE))
    \/ \E title \in RenderTitles, body \in RenderBodies, lang \in RenderLanguages,
          style \in RenderStyles, template \in CssTemplates,
          image \in HeaderImages, fullbleed \in BOOLEAN :
          c = Invoke("render_chapter",
                     RenderArgs(title, body, lang, style, template, image, fullbleed))

Returns(value) ==
    /\ ret' = value
    /\ callPc' = "done"
    /\ UNCHANGED call
    /\ UNCHANGED <<buildVars, splitVars, editorVars>>

PureInit ==
    /\ BuildInit
    /\ SplitIdle
    /\ EditorIdle
    /\ IsPureCall(call)
    /\ ret = <<>>
    /\ callPc = "ready"

\* ChapterDraft::from_raw(raw)
CallFromRaw ==
    /\ callPc = "ready"
    /\ call.fn = "from_raw"
    /\ Returns(from_raw(call.arg))

\* StrategyFactory::create(method, custom_regex, config_path)
CallCreate ==
    /\ callPc = "ready"
    /\ call.fn = "create"
    /\ Returns(StrategyFactoryCreate(call.arg[1], call.arg[2], call.arg[3]))

CallToRoman ==
    /\ callPc = "ready"
    /\ call.fn = "to_roman"
    /\ Returns(to_roman(call.arg))

CallFormatChapterHeading ==
    /\ callPc = "ready"
    /\ call.fn = "format_chapter_heading"
    /\ Returns(format_chapter_heading(call.arg[1], call.arg[2]))

CallSplitParagraphs ==
    /\ callPc = "ready"
    /\ call.fn = "split_paragraphs"
    /\ Returns(split_paragraphs(call.arg))

\* generate_filename(&book_info, template)
CallGenerateFilename ==
    /\ callPc = "ready"
    /\ call.fn = "generate_filename"
    /\ Returns(generate_filename(
                  [DefaultBookInfo EXCEPT !.title = call.arg[1],
                                          !.author = call.arg[2],
                                          !.publish_date = call.arg[3]],
                  call.arg[4]))

\* TextProcessor::is_chapter_title_line(line)
CallIsChapterTitleLine ==
    /\ callPc = "ready"
    /\ call.fn = "is_chapter_title_line"
    /\ Returns(is_chapter_title_line(call.arg))

\* TextProcessor::split_by_simple_rules(&self)
CallSplitBySimpleRules ==
    /\ callPc = "ready"
    /\ call.fn = "split_by_simple_rules"
    /\ Returns(split_by_simple_rules(call.arg))

\* render_chapter(&chapter, language, &style, template, chapter_index,
\*                header_image, header_fullbleed)
CallRenderChapter ==
    /\ callPc = "ready"
    /\ call.fn = "render_chapter"
    /\ Returns(RenderChapterDocument(
                  ChapterDraft(call.arg.title, call.arg.content),
                  call.arg.language, call.arg.style, call.arg.template,
                  call.arg.chapter_index, call.arg.header_image,
                  call.arg.header_fullbleed))

PureNext ==
    \/ CallFromRaw
    \/ CallCreate
    \/ CallToRoman
    \/ CallFormatChapterHeading
    \/ CallSplitParagraphs
    \/ CallGenerateFilename
    \/ CallIsChapterTitleLine
    \/ CallSplitBySimpleRules
    \/ CallRenderChapter

SpecPure == PureInit /\ [][PureNext]_vars

----------------------------------------------------------------------------
(* The chapter editor and MainApp::run_conversion (components/             *)
(* chapter_editor.rs, app.rs).  One action per button or edit of the       *)
(* window; run_conversion is entered by RunConversion and, when it gets as *)
(* far as ConversionFacade::convert, left by ConversionReturns.            *)

\* The inputs the user can set
EditorTexts == { <<>>, <<"x">>, <<"di", "yi", "zhang", "\n", "x">> }
EditorRegexes == { <<>>, <<"(">> }
EditorConfigs == { "", "rules.txt" }

NewChapter == ChapterDraft(<<"New Chapter">>, <<>>)

\* chapter_signature(text, method, regex, config_path): the values fed to
\* the hasher, in order; of the config file its bytes, or its path when it
\* cannot be read
chapter_signature(txt, method, regex, config_path) ==
    <<txt, method, regex>>
        \o (IF config_path = "" THEN <<>>
            ELSE IF ReadToString(config_path) = <<"unreadable">>
            THEN <<"path", config_path>>
            ELSE <<"bytes", ReadToString(config_path)>>)

\* MainApp::preview_signature
preview_signature(a) ==
    chapter_signature(a.input_file_content, a.selected_method,
                      a.custom_regex_pattern, a.custom_regex_file)

\* Variant for C27: the stale flag taken as the last button left it
UpdateStaleKeepsFlag(editor, signature) == editor.stale

\* ChapterEditorState::update_stale: the new value of `stale'
update_stale(editor, signature) ==
    IF editor.last_refresh_signature.some
    THEN editor.last_refresh_signature.value # signature
    ELSE TRUE

\* ChapterEditorState::show up to header_ui: the state the buttons act on
Shown == [chapter_editor EXCEPT !.stale = update_stale(chapter_editor, preview_signature(app))]

EditorStep(editor) ==
    /\ request = None
    /\ chapter_editor' = editor
    /\ UNCHANGED <<app, request>>
    /\ UNCHANGED <<buildVars, splitVars, pureVars>>

AppStep(a) ==
    /\ request = None
    /\ app' = a
    /\ UNCHANGED <<chapter_editor, request, listOrigin>>
    /\ UNCHANGED <<buildVars, splitVars, pureVars>>

\* The text, method, regex and config file fields of the main window
EditText ==
    \E txt \in EditorTexts \ {app.input_file_content} :
       AppStep([app EXCEPT !.input_file_content = txt])

SelectMethod ==
    \E m \in Methods \ {app.selected_method} :
       AppStep([app EXCEPT !.selected_method = m])

EditRegex ==
    \E re \in EditorRegexes \ {app.custom_regex_pattern} :
       AppStep([app EXCEPT !.custom_regex_pattern = re])

ChooseConfigFile ==
    \E path \in EditorConfigs \ {app.custom_regex_file} :
       AppStep([app EXCEPT !.custom_regex_file = path])

\* The `use chapter edits' checkbox
ToggleUseChapterEdits ==
    /\ EditorStep([chapter_editor EXCEPT !.use_for_conversion = ~@])
    /\ UNCHANGED listOrigin

\* ChapterEditorState::refresh
Refresh ==
    /\ \E st \in { StrategyFactoryCreate(app.selected_method, app.custom_regex_pattern,
                                         app.custom_regex_file) } :
          IF st.ok
          THEN /\ EditorStep([Shown EXCEPT
                                 !.chapters = split_to_drafts(st.pattern,
                                                              app.input_file_content),
                                 !.error = FALSE,
                                 !.stale = FALSE,
                                 !.last_refresh_signature = Some(preview_signature(app))])
               /\ listOrigin' = Some(preview_signature(app))
          ELSE /\ EditorStep([Shown EXCEPT !.error = TRUE])
               /\ UNCHANGED listOrigin

\* The Add button of header_ui
AddNewChapter ==
    /\ Len(chapter_editor.chapters) < MaxEdited
    /\ EditorStep([Shown EXCEPT !.chapters = Append(@, NewChapter),
                                !.stale = FALSE, !.error = FALSE])
    /\ UNCHANGED listOrigin

\* The Clear button of header_ui
ClearChapters ==
    /\ EditorStep([Shown EXCEPT !.chapters = <<>>, !.stale = FALSE, !.error = FALSE])
    /\ UNCHANGED listOrigin

\* The Delete button of a chapter (chapters_ui)
DeleteChapter ==
    /\ \E i \in 1..Len(chapter_editor.chapters) :
          EditorStep([Shown EXCEPT
                         !.chapters = SubSeq(@, 1, i - 1) \o SubSeq(@, i + 1, Len(@))])
    /\ UNCHANGED listOrigin

\* run_conversion ending before the request is built
ConversionRefused(editor, message) ==
    /\ chapter_editor' = editor
    /\ app' = [app EXCEPT !.conversion_error = Some(message),
                          !.conversion_result = None,
                          !.show_conversion_modal = TRUE]
    /\ UNCHANGED request

\* MainApp::run_conversion up to the call of ConversionFacade::convert
RunConversion ==
    /\ request = None
    /\ IF IsBlank(app.input_file_content)
       THEN ConversionRefused(chapter_editor, "PreviewTextEmpty")
       ELSE IF chapter_editor.use_for_conversion /\ Shown.stale
       THEN ConversionRefused(Shown, "ChapterWarningStale")
       ELSE IF chapter_editor.use_for_conversion /\ Shown.chapters = <<>>
       THEN ConversionRefused(Shown, "NoChapters")
       ELSE /\ chapter_editor' = (IF chapter_editor.use_for_conversion THEN Shown
                                  ELSE chapter_editor)
            /\ app' = [app EXCEPT !.conversion_error = None, !.conversion_result = None]
            /\ request' = Some(Request(app.input_file_content, app.selected_method,
                                       app.custom_regex_pattern, app.custom_regex_file,
                                       chapter_editor.use_for_conversion,
                                       IF chapter_editor.use_for_conversion
                                       THEN chapter_editor.chapters ELSE <<>>))
    /\ UNCHANGED listOrigin
    /\ UNCHANGED <<buildVars, splitVars, pureVars>>

\* `match ConversionFacade::convert(request)': the build may fail as well
ConversionReturns ==
    /\ request # None
    /\ \/ /\ ConvertPrologue(request.value).ok
          /\ app' = [app EXCEPT !.conversion_result = Some(<<"output_path">>),
                                !.conversion_error = None,
                                !.show_conversion_modal = TRUE]
       \/ /\ app' = [app EXCEPT !.conversion_error = Some("ConversionError"),
                                !.conversion_result = None,
                                !.show_conversion_modal = TRUE]
    /\ request' = None
    /\ UNCHANGED <<chapter_editor, listOrigin>>
    /\ UNCHANGED <<buildVars, splitVars, pureVars>>

\* The Close button of the conversion modal
CloseConversionModal ==
    /\ app.show_conversion_modal
    /\ AppStep([app EXCEPT !.show_conversion_modal = FALSE,
                           !.conversion_result = None,
                           !.conversion_error = None])

EditorNext ==
    \/ EditText
    \/ SelectMethod
    \/ EditRegex
    \/ ChooseConfigFile
    \/ ToggleUseChapterEdits
    \/ Refresh
    \/ AddNewChapter
    \/ ClearChapters
    \/ DeleteChapter
    \/ RunConversion
    \/ ConversionReturns
    \/ CloseConversionModal

SpecEditor == Init /\ [][EditorNext]_vars

----------------------------------------------------------------------------
(* Properties of build_epub and convert, checked under Spec *)

Succeeded == pc = "done" /\ result.status = "Ok"

Positions(log, P(_)) == { i \in 1..Len(log) : P(log[i]) }

\* Every entry satisfying P comes before every entry satisfying Q.
Before(log, P(_), Q(_)) ==
    \A i \in Positions(log, P), j \in Positions(log, Q) : i < j

IsMetadataEntry(e) == e.op \in {"metadata", "metadata_opf"}
IsStylesheetEntry(e) == e.op = "stylesheet"
IsContentEntry(e) == e.op = "content"
IsCoverImageEntry(e) == e.op = "cover_image"
IsCoverPageEntry(e) == e.op = "content" /\ e.name = <<"cover.xhtml">>
IsCoverEntry(e) == IsCoverImageEntry(e) \/ IsCoverPageEntry(e)
IsGalleryEntry(e) == e.op = "content" /\ e.name = <<"images.xhtml">>
IsGenerateEntry(e) == e.op = "generate"
IsGalleryImageEntry(e) ==
    e.op = "resource" /\ e.name[1] = "images/" /\ <<e.name[2]>> \in ImageNames

\* C1: build_epub called with an empty chapter list returns InvalidInput
\* whatever the options are, and does so before the output directory is
\* resolved or created, before the output file is created and before any
\* call on the builder.
C1_EmptyChaptersRejected ==
    (caller = "build" /\ chapters = <<>>) =>
        /\ pc \in {"check", "done"}
        /\ fsDir = FALSE
        /\ fsFile = "absent"
        /\ ops = <<>>
        /\ pc = "done" => result = Err("InvalidInput")

C1_Witness ==
    /\ caller = "build" /\ chapters = <<>> /\ pc = "done"
    /\ options.output_dir = "out" /\ options.cover = CoverAsset
    /\ result.kind = "InvalidInput"

\* The chapter list convert ends up with is empty.
EmptyChapterList(r) ==
    IF r.has_override THEN r.chapters_override = <<>>
    ELSE /\ ~IsBlank(r.text)
         /\ ConvertChapters(r).ok
         /\ ConvertChapters(r).chapters = <<>>

\* C2: convert never reaches the build stage with zero chapters: build_epub
\* is only ever invoked with a non-empty list, and an empty list, from
\* segmentation or from chapters_override, makes convert return InvalidInput
\* without invoking build_epub and without an output path.
C2_ConvertNeverBuildsEmpty ==
    caller = "convert" =>
        /\ buildCalls > 0 => chapters # <<>>
        /\ (pc = "done" /\ EmptyChapterList(req)) =>
              /\ result.status = "Err"
              /\ result.kind = "InvalidInput"
              /\ result.path = <<>>
              /\ buildCalls = 0
              /\ ops = <<>>
              /\ fsFile = "absent"

C2_Witness ==
    /\ caller = "convert" /\ pc = "done"
    /\ req.has_override /\ req.chapters_override = <<>>
    /\ ~IsBlank(req.text)
    /\ result = ErrMsg("InvalidInput", "No chapters detected.")
    /\ buildCalls = 0

\* C3 as stated: after a successful build_epub the number of chapter content
\* entries written equals chapters.len(), and so does the number of chapter
\* entries in the table of contents.
C3_ChapterCountMatchesToc ==
    Succeeded =>
        /\ Len(ChapterEntries(ops)) = Len(chapters)
        /\ Len(ChapterEntries(TocEntries(ops))) = Len(chapters)

ExpectedChapterName(i) ==
    <<"chapter_", "0", "0", "0">>
        \o << <<"1", "2", "3", "4", "5", "6", "7", "8", "9">>[i], ".xhtml" >>

\* C4: the chapters are written in input order: the i-th chapter content
\* added is named chapter_{i padded to 4 digits}.xhtml, is rendered from
\* chapters[i-1] with chapter_index i and carries chapters[i-1].title as its
\* title; a successful build has written exactly one such entry per chapter.
C4_ChaptersInInputOrder ==
    LET written == ChapterEntries(ops)
    IN  /\ Len(written) <= Len(chapters)
        /\ \A i \in 1..Len(written) :
              /\ written[i].name = ExpectedChapterName(i)
              /\ written[i].html.chapter = chapters[i]
              /\ written[i].html.chapter_index = i
              /\ written[i].title = chapters[i].title
        /\ Succeeded => Len(written) = Len(chapters)

C4_Witness ==
    /\ Succeeded
    /\ Len(chapters) = 2
    /\ chapters[1].title = <<"B">> /\ chapters[2].title = <<"A">>
    /\ Len(ChapterEntries(ops)) = 2

\* C5: the archive operations happen in a fixed order: no metadata after the
\* stylesheet; the stylesheet before every content document; a cover (image
\* or synthesized page) before the first chapter; every chapter before the
\* gallery page; finalization last; and in the table of contents the gallery
\* entry after every chapter entry.
C5_FixedOrder ==
    /\ Before(ops, IsMetadataEntry, IsStylesheetEntry)
    /\ Before(ops, IsStylesheetEntry, IsContentEntry)
    /\ Positions(ops, IsContentEntry) # {} => Positions(ops, IsStylesheetEntry) # {}
    /\ \A j \in Positions(ops, IsChapterEntry) :
          \E i \in Positions(ops, IsCoverEntry) : i < j
    /\ Before(ops, IsChapterEntry, IsGalleryEntry)
    /\ Positions(ops, IsGalleryEntry) # {} =>
          Len(ChapterEntries(ops)) = Len(chapters)
    /\ \A j \in Positions(ops, IsGenerateEntry) : j = Len(ops)
    /\ Before(TocEntries(ops), IsChapterEntry, IsGalleryEntry)

C5_Witness ==
    /\ Succeeded
    /\ Len(chapters) = 2
    /\ Positions(ops, IsGalleryEntry) # {}
    /\ Positions(ops, IsCoverImageEntry) # {}
    /\ Positions(ops, IsMetadataEntry) # {}

\* C6: cover handling is exclusive: never both a cover image and a
\* synthesized cover.xhtml; a successful build with options.cover = None has
\* written exactly one cover.xhtml page, with the Cover reference type, and
\* no cover image; with options.cover = Some(asset) it has registered exactly
\* that asset as the cover image and written no cover.xhtml.
C6_CoverExclusive ==
    LET pages == Positions(ops, IsCoverPageEntry)
        covers == Positions(ops, IsCoverImageEntry)
    IN  /\ pages = {} \/ covers = {}
        /\ Succeeded =>
              IF options.cover = NoAsset
              THEN /\ Cardinality(pages) = 1
                   /\ covers = {}
                   /\ \A i \in pages : ops[i].reftype = "Cover"
              ELSE /\ Cardinality(covers) = 1
                   /\ pages = {}
                   /\ \A i \in covers : ops[i].name = options.cover

C6_Witness ==
    /\ Succeeded
    /\ options.cover = CoverAsset
    /\ Positions(ops, IsCoverImageEntry) # {}
    /\ Positions(ops, IsCoverPageEntry) = {}

\* C7: images.xhtml is written if and only if include_images_section is true
\* and the image list is non-empty; whether or not the section is enabled,
\* every supplied image is written as an images/<name> resource.
C7_GalleryIffEnabledAndImages ==
    /\ Positions(ops, IsGalleryEntry) # {} =>
          (options.include_images_section /\ options.images # <<>>)
    /\ Succeeded =>
          /\ (options.include_images_section /\ options.images # <<>>) =>
                Cardinality(Positions(ops, IsGalleryEntry)) = 1
          /\ SelectSeq(ops, IsGalleryImageEntry)
                = [k \in 1..Len(options.images) |->
                      ResourceOp(<<"images/">> \o options.images[k])]

C7_Witness ==
    /\ Succeeded
    /\ ~options.include_images_section
    /\ Len(options.images) = 2
    /\ Len(SelectSeq(ops, IsGalleryImageEntry)) = 2
    /\ Positions(ops, IsGalleryEntry) = {}

OptionalKeys ==
    {"author", "title", "lang", "subject", "description", "publisher",
     "identifier", "date"}

\* The BookInfo field an optional metadata entry is taken from
FieldOfKey(key) ==
    CASE key = "author"      -> "author"
      [] key = "title"       -> "title"
      [] key = "lang"        -> "language"
      [] key = "subject"     -> "category"
      [] key = "description" -> "description"
      [] key = "publisher"   -> "publisher"
      [] key = "identifier"  -> "isbn"
      [] key = "date"        -> "publish_date"

HasMetadata(key) ==
    \E i \in Positions(ops, IsMetadataEntry) : ops[i].key = key

\* C8: an optional metadata field (author, title, language, subject,
\* description, publisher, identifier, date) that is blank after trimming
\* has no metadata entry at all, and no metadata entry carries an empty (or
\* blank) value.
C8_BlankMetadataOmitted ==
    /\ \A i \in Positions(ops, IsMetadataEntry) : ~IsBlank(ops[i].value)
    /\ \A key \in OptionalKeys :
          IsBlank(options.book_info[FieldOfKey(key)]) => ~HasMetadata(key)

C8_Witness ==
    /\ Succeeded
    /\ options.book_info.author = <<" ">>
    /\ options.book_info.title = <<" ", "v">>
    /\ ~HasMetadata("author")
    /\ HasMetadata("title")

----------------------------------------------------------------------------
(* Properties of the regex strategy, checked under SpecSplit *)

\* A line that begins, after optional leading whitespace, with a chapter
\* marker of the built-in Chinese pattern
IsMarkerLine(line) ==
    LET l == TrimStart(line)
    IN  /\ l # <<>>
        /\ \/ l[1] = "xu"
           \/ l[1] = "juan" /\ Len(l) >= 2 /\ l[2] \in Numerals
           \/ /\ l[1] = "di"
              /\ \E k \in 2..(Len(l) - 1) :
                    /\ \A j \in 2..k : l[j] \in Numerals
                    /\ l[k + 1] \in RegexChapterMarks

MarkerLines(ls) == { i \in 1..Len(ls) : IsMarkerLine(ls[i]) }

\* Some non-blank line precedes the first marker line (or there is none).
HasPreface(ls) ==
    \E i \in 1..Len(ls) :
        /\ ~IsBlank(ls[i])
        /\ \A j \in MarkerLines(ls) : i < j

\* C9: under the built-in Chinese pattern a marker in the middle of a line
\* never starts a chapter and a marker at the start of a line (after optional
\* whitespace) always does: the number of drafts is the number of line-start
\* markers plus one for a non-blank preface, every draft but the preface
\* begins with a marker line, and no draft holds a marker line further down.
C9_ChineseMarkersOnlyAtLineStart ==
    (splitPc = "done" /\ pattern = ChineseChapter) =>
        LET ls == Lines(CleanText(text))
            pre == IF HasPreface(ls) THEN 1 ELSE 0
        IN  /\ Len(raws) = Cardinality(MarkerLines(ls)) + pre
            /\ Len(drafts) = Len(raws)
            /\ \A k \in 1..Len(raws) :
                  /\ k > pre => IsMarkerLine(Lines(raws[k])[1])
                  /\ MarkerLines(Lines(raws[k])) \subseteq {1}

C9_Witness ==
    /\ splitPc = "done" /\ pattern = ChineseChapter
    /\ text = <<"x", "di", "yi", "zhang", "\n", "di", "yi", "zhang", "\n",
                "x", "u3000", "xu">>
    /\ Len(raws) = 2
    /\ raws[1] = <<"x", "di", "yi", "zhang">>

NonEmpty(str) == str # <<>>

\* The draft list C10 describes for the matches ms of the pattern in t
ClaimedDrafts(t, ms) ==
    LET n == Len(ms)
        preface == Trim(Slice(t, 0, ms[1][1]))
        body == [k \in 1..n |->
                    Trim(Slice(t, ms[k][1],
                               IF k < n THEN ms[k + 1][1] ELSE Len(t)))]
    IN  SelectSeq(<<preface>> \o body, NonEmpty)

\* C10 as stated: for any text and any pattern with at least one match the
\* regex strategy returns the non-blank trimmed preface before the first
\* match, then for each match of find_iter the trimmed text from that match's
\* start to the start of the next match of the same sequence (or to the end
\* of the text), blank pieces apart.
C10_DraftsFollowMatchSequence ==
    (splitPc = "done" /\ pattern.kind # "SimpleRules"
        /\ find_iter(pattern, CleanText(text)) # <<>>) =>
        raws = ClaimedDrafts(CleanText(text),
                             find_iter(pattern, CleanText(text)))

\* C11 as stated: when the boundary pattern matches nothing in the text, the
\* regex strategy returns an empty draft list.
C11_NoMatchGivesNoDrafts ==
    (splitPc = "done" /\ pattern.kind # "SimpleRules"
        /\ find_iter(pattern, CleanText(text)) = <<>>) =>
        (raws = <<>> /\ drafts = <<>>)

----------------------------------------------------------------------------
(* Properties of the simple-rules strategy and of the drafts, checked      *)
(* under SpecSplit                                                         *)

\* No line of the cleaned text is classified as a title line.
NoTitleLine(t) ==
    \A i \in 1..Len(Lines(t)) : ~is_chapter_title_line(Trim(Lines(t)[i]))

PlaceholderTitle == <<"Untitled Chapter">>

\* C12 as stated: under SimpleRules a text without any title line comes back
\* as exactly one chapter, and the title of that chapter is empty or the
\* placeholder title.
C12_NoTitleLineOneUntitledChapter ==
    (splitPc = "done" /\ pattern = SimpleRules
        /\ ~IsBlank(CleanText(text)) /\ NoTitleLine(CleanText(text))) =>
        /\ Len(drafts) = 1
        /\ drafts[1].title \in {<<>>, PlaceholderTitle}

\* C13 as stated: a draft built by ChapterDraft::from_raw never has the empty
\* string as its title.
C13_FromRawTitleNonEmpty ==
    (callPc = "done" /\ call.fn = "from_raw") => ret.title # <<>>

----------------------------------------------------------------------------
(* Properties of StrategyFactory::create, checked under SpecPure *)

\* Regex sources that are not valid regex syntax
InvalidSyntax(src) == src = <<"(">>

\* The error kind create has to report for its arguments, "" for none
ExpectedCreateError(method, custom_regex, config_path) ==
    CASE method = "Regex" ->
            IF ~IsBlank(custom_regex) /\ InvalidSyntax(Trim(custom_regex))
            THEN "Regex" ELSE ""
      [] method = "CustomConfig" ->
            IF config_path = "" THEN "InvalidInput"
            ELSE IF config_path = "missing.txt" THEN "Io"
            ELSE IF InvalidSyntax(Trim(ReadToString(config_path)))
            THEN "Regex" ELSE ""
      [] OTHER -> ""

\* C14: create reports an invalid custom regex (typed in or read from the
\* config file) as Regex, an unreadable config path as Io and CustomConfig
\* without a path as InvalidInput; it reports no failure under another kind,
\* fails in no other case, and returns no strategy when it fails.
C14_CreateErrorKinds ==
    (callPc = "done" /\ call.fn = "create") =>
        LET kind == ExpectedCreateError(call.arg[1], call.arg[2], call.arg[3])
        IN  /\ ret.ok <=> kind = ""
            /\ ~ret.ok => (ret.kind = kind /\ ret.pattern = NoPattern)
            /\ ret.ok => ret.pattern # NoPattern

C14_Witness ==
    /\ callPc = "done" /\ call.fn = "create"
    /\ call.arg[1] = "CustomConfig" /\ call.arg[3] = "bad.txt"
    /\ ~ret.ok /\ ret.kind = "Regex"

----------------------------------------------------------------------------
(* Properties of ConversionFacade::convert's prologue, checked under Spec *)

\* C15: convert rejects a request whose text is empty or only whitespace with
\* InvalidInput("Text content is empty.") before anything else, also when a
\* non-empty chapters_override is supplied: no strategy error is reported
\* instead, build_epub is not called and no file is written.
C15_BlankTextRejectedFirst ==
    (caller = "convert" /\ IsBlank(req.text)) =>
        /\ pc = "done"
        /\ result = ErrMsg("InvalidInput", "Text content is empty.")
        /\ buildCalls = 0
        /\ chapters = <<>>
        /\ ops = <<>>
        /\ fsDir = FALSE
        /\ fsFile = "absent"

C15_Witness ==
    /\ caller = "convert" /\ pc = "done"
    /\ req.text = <<" ", "\n">>
    /\ req.has_override /\ Len(req.chapters_override) = 2
    /\ req.method = "Regex" /\ req.custom_regex = <<"(">>
    /\ result.kind = "InvalidInput"

\* r differs from q at most in method, custom_regex and custom_config_path.
SameButStrategy(r, q) ==
    /\ r.text = q.text
    /\ r.has_override = q.has_override
    /\ r.chapters_override = q.chapters_override

\* C16: with a non-blank text and chapters_override present, segmentation is
\* bypassed: no error of strategy creation (Regex, Io, missing config path)
\* is reported, requests differing only in method, custom_regex or
\* custom_config_path get the same outcome of the prologue, and the chapters
\* handed to build_epub and written are exactly the override list, in order.
C16_OverrideBypassesSegmentation ==
    (caller = "convert" /\ req.has_override /\ ~IsBlank(req.text)) =>
        /\ \A r \in Requests :
              SameButStrategy(r, req) => ConvertPrologue(r) = ConvertPrologue(req)
        /\ IF req.chapters_override = <<>>
           THEN /\ pc = "done"
                /\ result = ErrMsg("InvalidInput", "No chapters detected.")
                /\ buildCalls = 0
           ELSE /\ buildCalls = 1
                /\ chapters = req.chapters_override
                /\ (pc = "done" /\ result.status = "Err") => result.kind = "Build"
                /\ Succeeded =>
                      /\ Len(ChapterEntries(ops)) = Len(req.chapters_override)
                      /\ \A i \in 1..Len(req.chapters_override) :
                            ChapterEntries(ops)[i].html.chapter
                                = req.chapters_override[i]

C16_Witness ==
    /\ caller = "convert" /\ Succeeded
    /\ req.has_override /\ req.text = <<"x">>
    /\ req.method = "CustomConfig" /\ req.custom_config_path = "missing.txt"
    /\ req.custom_regex = <<"(">>
    /\ Len(chapters) = 2
    /\ chapters[1].title = <<"B">> /\ chapters[2].title = <<"A">>

----------------------------------------------------------------------------
(* Properties of the heading helpers, checked under SpecPure *)

\* The subtractive-notation forms of one decimal digit, written with the
\* symbols for one, five and ten of its place
DigitForm(d, one, five, ten) ==
    << <<>>, <<one>>, <<one, one>>, <<one, one, one>>, <<one, five>>, <<five>>,
       <<five, one>>, <<five, one, one>>, <<five, one, one, one>>,
       <<one, ten>> >>[d + 1]

Thousands(k) == [i \in 1..k |-> "M"]

\* The standard numeral of n, place by place
StandardRoman(n) ==
    Thousands(n \div 1000)
        \o DigitForm((n \div 100) % 10, "C", "D", "M")
        \o DigitForm((n \div 10) % 10, "X", "L", "C")
        \o DigitForm(n % 10, "I", "V", "X")

SymbolValue(c) ==
    CASE c = "I" -> 1 [] c = "V" -> 5 [] c = "X" -> 10 [] c = "L" -> 50
      [] c = "C" -> 100 [] c = "D" -> 500 [] c = "M" -> 1000

RECURSIVE RomanValue(_)
\* Reading a numeral: a symbol ahead of a larger one is subtracted
RomanValue(numeral) ==
    IF numeral = <<>> THEN 0
    ELSE IF Len(numeral) > 1 /\ SymbolValue(numeral[1]) < SymbolValue(numeral[2])
    THEN RomanValue(Tail(numeral)) - SymbolValue(numeral[1])
    ELSE RomanValue(Tail(numeral)) + SymbolValue(numeral[1])

\* C17: for every n >= 1, to_roman(n) is the standard upper-case
\* subtractive-notation numeral of n, thousands written as repeated M, and
\* reading the numeral gives back n.
C17_ToRomanStandard ==
    (callPc = "done" /\ call.fn = "to_roman" /\ call.arg >= 1) =>
        /\ ret = StandardRoman(call.arg)
        /\ RomanValue(ret) = call.arg

C17_Witness ==
    /\ callPc = "done" /\ call.fn = "to_roman" /\ call.arg = 1994
    /\ ret = <<"M", "C", "M", "X", "C", "I", "V">>

\* The text after the first word of t and the whitespace that follows it
AfterFirstWord(t) == TrimStart(Slice(t, WordEnd(t, 0), Len(t)))

\* The digits that follow "Chapter", and the text that remains after them
NumeralOf(t) ==
    Slice(AfterFirstWord(t), 0, SkipWhile(AfterFirstWord(t), 0, AsciiDigits))
RemainingOf(t) ==
    Slice(AfterFirstWord(t), SkipWhile(AfterFirstWord(t), 0, AsciiDigits),
          Len(AfterFirstWord(t)))

\* The remaining text without its leading separator, None when nothing is left
StripSeparator(str) ==
    LET r == Trim(Slice(Trim(str), SkipWhile(Trim(str), 0, HeadingSeparators),
                        Len(Trim(str))))
    IN  IF r = <<>> THEN None ELSE Some(r)

\* The language is English or the title starts with "Chapter " (in either
\* case), and a numeral follows "Chapter".
IsNumberedChapter(t, lang) ==
    /\ IsEnglish(lang) \/ StartsWith(ToAsciiLower(t), <<"chapter", " ">>)
    /\ ToAsciiLower(Slice(t, 0, WordEnd(t, 0))) = <<"chapter">>
    /\ NumeralOf(t) # <<>>

\* The line split on its first whitespace run into (label, optional rest)
SplitOnFirstWhitespace(t) ==
    IF WordEnd(t, 0) = Len(t) THEN Heading(t, None)
    ELSE Heading(Slice(t, 0, WordEnd(t, 0)), Some(AfterFirstWord(t)))

\* C18 as stated: when the language is English or the title starts with
\* "Chapter ", and a numeral follows "Chapter", format_chapter_heading returns
\* label "Chapter " + Roman numeral and as title the text remaining after the
\* numeral without its leading separator (None when nothing remains); in
\* every other case it returns the line split on its first whitespace run.
C18_HeadingLabelAndTitle ==
    (callPc = "done" /\ call.fn = "format_chapter_heading") =>
        LET t == Trim(call.arg[1])
        IN  IF IsNumberedChapter(t, call.arg[2])
            THEN /\ ret.label = <<"Chapter", " ">>
                                   \o StandardRoman(DecimalValue(NumeralOf(t)))
                 /\ ret.title = StripSeparator(RemainingOf(t))
            ELSE ret = SplitOnFirstWhitespace(t)

----------------------------------------------------------------------------
(* Properties of split_paragraphs, checked under SpecPure *)

RECURSIVE WithoutTrailingBlankLines(_)
\* The body with no line feed after its last paragraph
WithoutTrailingBlankLines(body) ==
    IF body # <<>> /\ body[Len(body)] = "\n"
    THEN WithoutTrailingBlankLines(SubSeq(body, 1, Len(body) - 1))
    ELSE body

RECURSIVE SingleBlankLines(_)
\* The body with every run of blank lines reduced to one blank line
SingleBlankLines(body) ==
    IF Len(body) < 3 THEN body
    ELSE IF body[1] = "\n" /\ body[2] = "\n" /\ body[3] = "\n"
    THEN SingleBlankLines(Tail(body))
    ELSE <<body[1]>> \o SingleBlankLines(Tail(body))

\* C19 as stated: split_paragraphs groups a chapter body the same way however
\* many blank lines follow its last paragraph (zero, one or several) and
\* however many blank lines separate two paragraphs.
C19_BlankLineCountIrrelevant ==
    (callPc = "done" /\ call.fn = "split_paragraphs") =>
        /\ ret = split_paragraphs(WithoutTrailingBlankLines(call.arg))
        /\ ret = split_paragraphs(SingleBlankLines(call.arg))

----------------------------------------------------------------------------
(* Properties of generate_filename, checked under SpecPure *)

\* C20 as stated: the filename produced by generate_filename contains none of
\* the characters / \ : * ? " < > |, for every title, author, publish date
\* and template, the empty and the all-invalid templates included.
C20_FilenameHasNoInvalidChar ==
    (callPc = "done" /\ call.fn = "generate_filename") =>
        \A i \in 1..Len(ret) : ret[i] \notin InvalidChars

----------------------------------------------------------------------------
(* Properties of the TOC display name and of failures, checked under Spec *)

IsTocNameEntry(e) == e.op = "metadata" /\ e.key = "toc_name"

\* The display name the build has to write for its options
ExpectedTocName(o) ==
    IF o.toc_title_override # <<>> /\ \E i \in 1..Len(o.toc_title_override) :
                                         ~IsWs(o.toc_title_override[i])
    THEN o.toc_title_override
    ELSE IF \A i \in 1..Len(o.book_info.language) : IsWs(o.book_info.language[i])
    THEN <<"mulu">>
    ELSE IF \E k \in 1..(Len(o.book_info.language) - 1) :
               /\ \A i \in 1..(k - 1) : IsWs(o.book_info.language[i])
               /\ o.book_info.language[k] = "z"
               /\ o.book_info.language[k + 1] = "h"
    THEN <<"mulu">>
    ELSE <<"Table Of Contents">>

Failed == pc = "done" /\ result.status = "Err"

\* C22: a failure at any step of build_epub (directory creation, file
\* creation, a call on the archive writer, the read of a bundled asset) ends
\* the build with an error at once: the failing step leaves the directory
\* and the file as they were and adds nothing after the call that failed, no
\* step runs after the return, no path is returned, and the output file,
\* when it was created, is never a finalized archive; only a build that
\* returns Ok leaves a finalized file.
C22_FailureAbortsBuild ==
    /\ [](Failed => /\ fsFile # "finalized"
                    /\ Positions(ops, IsGenerateEntry) = {}
                    /\ result.path = <<>>)
    /\ [](fsFile = "finalized" => Succeeded)
    /\ [][(pc' = "done" /\ result'.status = "Err")
             => /\ fsFile' = fsFile /\ fsDir' = fsDir
                /\ SubSeq(ops', 1, Len(ops)) = ops
                /\ (pc # "template" => ops' = ops)]_vars
    /\ [][pc # "done"]_vars

C22_Witness ==
    /\ Failed
    /\ caller = "build"
    /\ result.kind = "Io"
    /\ fsFile = "created"
    /\ options.css_template = "Fantasy"
    /\ Len(ops) > 2

----------------------------------------------------------------------------
(* Properties of the SimpleRules title lines, checked under SpecPure *)

FixedMarkers ==
    { <<"xu", "zhang">>, <<"xu", "yan">>, <<"xu">>, <<"xie", "zi">>,
      <<"yin", "zi">>, <<"qian", "yan">>, <<"hou", "ji_rec">>,
      <<"wei", "sheng">>, <<"zhong", "zhang">>, <<"fan", "wai">>,
      <<"wai", "zhuan">>, <<"fu", "lu">> }

\* A title line as the claim defines it
IsTitleLine(line) ==
    /\ line # <<>>
    /\ Len(line) <= 60
    /\ \/ \E m \in FixedMarkers :
             Len(line) >= Len(m) /\ \A i \in 1..Len(m) : line[i] = m[i]
       \/ /\ line[1] = "di"
          /\ \E i \in 1..Len(line) :
                line[i] \in {"zhang", "hui", "jie", "ji_col", "juan", "bu", "pian"}
       \/ /\ line[1] = "juan"
          /\ \E i \in 2..Len(line) :
                line[i] \in {"0", "1", "2", "3", "4", "5", "6", "7", "8", "9",
                             "fw4", "yi", "bai"}

\* The trimmed lines of the text SimpleRules works on
SimpleRuleLines(txt) ==
    LET ls == Lines(Trim(SelectSeq(txt, LAMBDA c : c \notin {"\r", "u3000"})))
    IN  [i \in 1..Len(ls) |-> Trim(ls[i])]

TitleIndexes(ls) == { i \in 1..Len(ls) : IsTitleLine(ls[i]) }

\* The lines from a up to b as one chapter string
ChapterOfLines(ls, a, b) == Trim(Join(SubSeq(ls, a, b), <<"\n">>))

\* The chapters SimpleRules has to produce: the text ahead of the first title
\* line when it is not blank, then one chapter per title line that runs up
\* to the line before the next title line
ExpectedSimpleChapters(txt) ==
    LET ls == SimpleRuleLines(txt)
        titles == TitleIndexes(ls)
        first == IF titles = {} THEN Len(ls) + 1
                 ELSE CHOOSE i \in titles : \A j \in titles : i <= j
        nth(k) == CHOOSE i \in titles : Cardinality({ j \in titles : j <= i }) = k
        last(k) == IF k = Cardinality(titles) THEN Len(ls) ELSE nth(k + 1) - 1
        preface == ChapterOfLines(ls, 1, first - 1)
    IN  (IF preface = <<>> THEN <<>> ELSE <<preface>>)
            \o [k \in 1..Cardinality(titles) |-> ChapterOfLines(ls, nth(k), last(k))]

\* C23: is_chapter_title_line holds of a trimmed line exactly when the line
\* is non-empty, has at most 60 characters and starts with a fixed structural
\* marker, or starts with the ordinal prefix and contains a chapter marker,
\* or starts with the volume marker and has a digit, fullwidth digit or
\* Chinese numeral after its first character; and under SimpleRules every
\* such line starts a new chapter that takes the following non-title lines
\* as its body.
C23_TitleLinesStartChapters ==
    /\ (callPc = "done" /\ call.fn = "is_chapter_title_line") =>
          (ret <=> IsTitleLine(call.arg))
    /\ (callPc = "done" /\ call.fn = "split_by_simple_rules") =>
          ret = ExpectedSimpleChapters(call.arg)

C23_Witness ==
    /\ callPc = "done" /\ call.fn = "split_by_simple_rules"
    /\ Len(ret) = 2
    /\ ret[1] = <<"xu", "zhang", "\n", "x">>
    /\ ret[2] = <<"di", "yi", "zhang", " ", "x">>

----------------------------------------------------------------------------
(* Properties of paragraphs and of render_chapter, checked under SpecPure *)

\* The line ends in a sentence mark, closing quotes and brackets after it
\* left aside
EndsSentence(line) ==
    \E i \in 1..Len(line) :
        /\ line[i] \in {"juhao", "!", "?", ".", ";", ":"}
        /\ \A j \in (i + 1)..Len(line) : line[j] \in {"rquote", ")", "]", "}", "'"}

TrimmedLines(body) == [i \in 1..Len(Lines(body)) |-> Trim(Lines(body)[i])]

\* A body of at least one line, none of them blank
IsUnbrokenBlock(body) ==
    /\ Lines(body) # <<>>
    /\ \A i \in 1..Len(Lines(body)) : TrimmedLines(body)[i] # <<>>

\* C24: for a body with no blank line, split_paragraphs makes every line its
\* own paragraph exactly when the lines ending in sentence-final punctuation
\* (trailing closing quotes and brackets ignored) are at least two thirds of
\* the lines, punct * 3 >= lines * 2; otherwise it returns the whole block as
\* one paragraph holding all the lines.
C24_PunctuationDecidesParagraphs ==
    (callPc = "done" /\ call.fn = "split_paragraphs" /\ IsUnbrokenBlock(call.arg)) =>
        LET ls == TrimmedLines(call.arg)
            punct == Cardinality({ i \in 1..Len(ls) : EndsSentence(ls[i]) })
        IN  IF punct * 3 >= Len(ls) * 2
            THEN ret = [i \in 1..Len(ls) |-> <<ls[i]>>]
            ELSE ret = <<ls>>

C24_Witness ==
    /\ callPc = "done" /\ call.fn = "split_paragraphs"
    /\ call.arg = <<"a", ".", "\n", "a", ".", ")", "\n", "a">>
    /\ Len(ret) = 3

IsParagraphElement(e) == e.el = "p"
ParagraphElements(doc) == SelectSeq(doc, IsParagraphElement)

\* The line, leading whitespace aside, opens with [class= in either case and
\* has a closing bracket with something other than whitespace before it
OpensWithMarker(line) ==
    LET t == TrimStart(line)
    IN  /\ t # <<>>
        /\ t[1] \in {"[class=", "[CLASS="}
        /\ \E i \in 2..Len(t) :
              /\ t[i] = "]"
              /\ \A j \in 2..(i - 1) : t[j] # "]"
              /\ \E j \in 2..(i - 1) : ~IsWs(t[j])

\* The position of the bracket that closes the marker of t
MarkerClose(t) == CHOOSE i \in 2..Len(t) : t[i] = "]" /\ \A j \in 2..(i - 1) : t[j] # "]"

\* The class names between the brackets, each with a space ahead of it
MarkerClasses(line) ==
    LET t == TrimStart(line)
        names == split_whitespace(SubSeq(t, 2, MarkerClose(t) - 1))
    IN  IF Len(names) = 1 THEN <<" ">> \o names[1]
        ELSE <<" ">> \o names[1] \o <<" ">> \o names[2]

\* What is left of the line after its marker
AfterMarker(line) ==
    LET t == TrimStart(line)
    IN  TrimStart(SubSeq(t, MarkerClose(t) + 1, Len(t)))

\* The class attribute of the k-th paragraph without any marker class
PlainParagraphClass(k, style) ==
    (IF k = 1 THEN <<"chapter-paragraph", " ", "chapter-paragraph-first">>
     ELSE <<"chapter-paragraph">>)
        \o (IF style.extra_paragraph_class = <<>> THEN <<>>
            ELSE <<" ">> \o style.extra_paragraph_class)

HasChineseShape(title) ==
    LET t == Trim(title)
    IN  /\ t # <<>>
        /\ t[1] = "di"
        /\ \E i \in 1..Len(t) :
              /\ t[i] \in {"zhang", "hui", "jie", "juan", "bu", "pian"}
              /\ \E j \in (i + 1)..Len(t) :
                    t[j] \notin TitleSeparators /\ ~IsWs(t[j])

UsesStandardHeader(arg) == arg.template # "Fantasy" \/ ~HasChineseShape(arg.title)

\* C26: when a header image is supplied and the standard header is used (any
\* template but Fantasy, and Fantasy when the title lacks the Chinese shape),
\* the document holds the chapter-head image block of that image, full-bleed
\* or normal, right before the chapter-header block.
C26_HeadImageBeforeStandardHeader ==
    (callPc = "done" /\ call.fn = "render_chapter"
        /\ call.arg.header_image.some /\ UsesStandardHeader(call.arg)) =>
        \E i \in 1..(Len(ret) - 1) :
           /\ ret[i].el = "head_image"
           /\ ret[i].class = (IF call.arg.header_fullbleed
                              THEN <<"chapter-head-image", " ", "fullbleed">>
                              ELSE <<"chapter-head-image">>)
           /\ ret[i].src = <<"images/">> \o escape_html(call.arg.header_image.value)
           /\ ret[i + 1].el = "header"

\* The five characters of markup; escape_html turns each into one entity
MarkupChars == {"&", "<", ">", "\"", "'"}
HasNoMarkupChar(str) == \A i \in 1..Len(str) : str[i] \notin MarkupChars

\* C29: every caller-supplied string of the chapter document (title,
\* paragraph text, language code, extra body, chapter, title and paragraph
\* classes, marker classes, image names) has gone through escape_html, so
\* none of & < > " ' is in an attribute or in the text of an element.
C29_NoRawMarkupCharacter ==
    (callPc = "done" /\ call.fn = "render_chapter") =>
        \A i \in 1..Len(ret) :
           /\ HasNoMarkupChar(ret[i].class)
           /\ HasNoMarkupChar(ret[i].src)
           /\ \A k \in 1..Len(ret[i].lines) : HasNoMarkupChar(ret[i].lines[k])

\* C30: render_chapter emits no empty paragraph: split_paragraphs returns no
\* paragraph of zero lines, and no paragraph at all exactly for a blank body,
\* and every <p> of the document, its marker stripped, has a line of
\* visible text.
C30_NoEmptyParagraph ==
    /\ (callPc = "done" /\ call.fn = "split_paragraphs") =>
          /\ \A k \in 1..Len(ret) : ret[k] # <<>>
          /\ (ret = <<>>) <=> IsBlank(call.arg)
    /\ (callPc = "done" /\ call.fn = "render_chapter") =>
          \A i \in 1..Len(ret) :
             ret[i].el = "p" =>
                \E k \in 1..Len(ret[i].lines) : ~IsBlank(ret[i].lines[k])

\* The calls on the builder that write a member of the archive under a path
WritesArchiveMember(e) == e.op \in {"stylesheet", "cover_image", "resource", "content"}

\* C28: the archive member paths written by build_epub (the stylesheet, the
\* cover image, fonts/<font name>, the resources bundled with the template,
\* images/<gallery image name>, cover.xhtml, chapter_NNNN.xhtml and
\* images.xhtml) are pairwise distinct, whatever asset names and template the
\* caller supplies.
C28_ArchivePathsDistinct ==
    \A i, j \in 1..Len(ops) :
       (i < j /\ WritesArchiveMember(ops[i]) /\ WritesArchiveMember(ops[j])) =>
          ops[i].name # ops[j].name

\* The edited list is fresh: it came from a refresh of the inputs as they are
ListIsFresh == listOrigin = Some(preview_signature(app))

\* C27: with `use chapter edits' on, the request handed to the converter
\* carries the edited list as chapters_override only when the list is
\* non-empty and came from a refresh whose signature is the one of the
\* current text, method, regex and config file; a conversion started on a
\* stale or empty list hands over no request and ends with an error shown
\* in the modal.
C27_OnlyFreshEditsHandedOver ==
    /\ [](request.some =>
             /\ request.value.has_override = chapter_editor.use_for_conversion
             /\ request.value.has_override =>
                   /\ request.value.chapters_override = chapter_editor.chapters
                   /\ request.value.chapters_override # <<>>
                   /\ ListIsFresh)
    /\ [][(RunConversion /\ chapter_editor.use_for_conversion
              /\ (chapter_editor.chapters = <<>> \/ ~ListIsFresh)) =>
             /\ request' = None
             /\ app'.conversion_error.some
             /\ app'.show_conversion_modal]_vars

C27_Witness ==
    /\ request.some
    /\ request.value.has_override
    /\ request.value.chapters_override =
          <<ChapterDraft(<<"di", "yi", "zhang">>, <<"x">>), NewChapter>>
    /\ ListIsFresh

====
